---- MODULE Spec2Model ----
(***************************************************************************)
(* Model of the ren_utils allocators: StackAllocator, DoubleStackAllocator, *)
(* PoolAllocator, the Align helpers and the Ptr handles (new_ptr,           *)
(* delete_ptr).  A behaviour constructs one allocator (kind); the caller    *)
(* then invokes its operations in any order with any arguments.  There is   *)
(* one specification per allocator driven through its own interface, and    *)
(* one (SpecPtr) for the three of them driven through Ptr handles.          *)
(* size_t and uintptr_t are unsigned words of SizeBits bits, so all         *)
(* arithmetic on them is taken modulo SizeMod.  Memory is an array of       *)
(* bytes; only bytes the allocator wrote inside its own buffer are tracked, *)
(* any other byte reads as an arbitrary value.                              *)
(***************************************************************************)
EXTENDS Integers, Sequences, FiniteSets, TLC

\* ------------------------------------------------------------------ bounds

\* Width in bits of size_t / uintptr_t in the model.
SizeBits == 10
\* Largest ordinary request size tried by the caller.
MaxAlloc == 2
\* Requests of SizeMod - 1, ..., SizeMod - MaxWrap are tried as well.
MaxWrap == 1
\* Largest capacity of a StackAllocator / DoubleStackAllocator.
MaxStackSize == 4
\* How many markers the caller keeps at a time.
MaxMarkers == 1
\* Alignments 1, 2, ..., 2^MaxAlignLog are requested.
MaxAlignLog == 2
\* sizeof(T) of the types handles are made for: 1 .. MaxTypeSize.
MaxTypeSize == 2
\* How many Ptr handle variables the caller has.
MaxPtrs == 1
\* Handle variables of the caller that holds several handles at a time.
MaxHandles == 2
\* Raw addresses handed to the Align functions: BaseAddrs plus 0 .. MaxRawOffset.
MaxRawOffset == 16
\* Alignments 0 .. MaxOddAlign, powers of two or not, are tried on the Align
\* functions besides the powers of two up to 2 ^ MaxShiftLog.
MaxOddAlign == 7
\* The largest power of two AlignPtrStore can store the shift of: 2 ^ 8 = 256.
MaxShiftLog == 8
\* Largest num_items given to the PoolAllocator constructor.
MaxItems == 5
\* delete_ptr is followed until it has released the same object this often.
MaxRelease == 2
\* A behaviour is followed until the pool has, in this many calls, used the
\* value of bytes it never wrote or freed an item that was not handed out.
MaxWild == 2
\* The largest capacity of a RingBuffer.
MaxCapacity == 3
\* The values pushed into a RingBuffer are 1 .. MaxItem.
MaxItem == 2
\* Pushes are followed while fewer than this many items are pushed and not
\* popped, those a later push discarded included.
MaxPushed == 4

SizeMod == 2 ^ SizeBits
NULL == 0

\* A slot of a RingBuffer's storage that holds no object: never
\* constructed, or destroyed.
Dead == 0
\* An empty std::optional, where a reference is observed as a slot.
NoRef == 0 - 1
RingItems == 1 .. MaxItem
RingCapacities == 1 .. MaxCapacity

\* StackAllocator::InvalidMarker = Marker(-1)
InvalidMarker == SizeMod - 1

\* Request sizes: small ones, and huge ones for which cursor + size wraps.
AllocSizes == (0 .. MaxAlloc) \cup { SizeMod - k : k \in 1 .. MaxWrap }
\* Capacities given to the constructors.
StackSizes == { MaxStackSize }
\* Addresses operator new[] / malloc may return for the buffer (aligned and odd).
BaseAddrs == { 256, 257 }
\* Addresses of the buffer of a StackAllocator: the addresses m_stack + m_pTop
\* its allocations start from take every remainder modulo the alignments.
StackBaseAddrs == { 256 }
\* Marker values a caller may pass to StackAllocator::FreeToMarker.
MarkerInputs == (0 .. MaxStackSize + 1) \cup { InvalidMarker }
\* Alignments the caller asks for.
Aligns == { 2 ^ k : k \in 0 .. MaxAlignLog }
\* sizeof(T)
TypeSizes == 1 .. MaxTypeSize
\* num_items given to the PoolAllocator constructor.
PoolCounts == 1 .. MaxItems
\* sizeof(uint8_t*): a pointer of SizeBits bits takes this many bytes.
PtrSize == (SizeBits + 7) \div 8
\* Values an untracked byte may read as.
ByteSamples == { 0, 255 }

LEFT == 0
RIGHT == 1

VARIABLES
  kind,              \* which allocator this behaviour constructed
  m_stack,           \* StackAllocator: buffer address
  m_totalStackSize,  \* StackAllocator: capacity
  m_pTop,            \* StackAllocator: cursor
  m_memory,          \* DoubleStackAllocator: buffer address
  m_totalMemSize,    \* DoubleStackAllocator: capacity
  m_left,            \* DoubleStackAllocator: left cursor
  m_right,           \* DoubleStackAllocator: right cursor
  m_pool,            \* PoolAllocator: buffer address
  m_first,           \* PoolAllocator: head of the free list
  m_total,           \* PoolAllocator: number of items
  m_used,            \* PoolAllocator: number of items handed out
  m_align,           \* PoolAllocator: alignment of the items
  sizeofT,           \* PoolAllocator<T>: sizeof(T)
  live,              \* pool pointers the caller got from Alloc and has not freed
  freed,             \* pool pointers freed and not handed out again, latest first
  fresh,             \* no pool item has been freed yet
  mem,               \* tracked bytes: address -> 0 .. 255
  ub,                \* the allocator has accessed memory outside its buffer
  wild,              \* in how many calls the pool used the value of an untracked
                     \* byte or freed an item that was not handed out
  markers,           \* markers taken by GetMarker, no free below them since
  stale,             \* markers taken by GetMarker that a later free went below
  owned,             \* StackAllocator: the bytes of its buffer that belong to
                     \* allocations still live
  cum,               \* StackAllocator: the sum of the sizes asked of Alloc, while
                     \* nothing but Alloc was called and the sum fits; else -1
  ptrs,              \* the caller's Ptr handle variables
  hist,              \* order: the handle variables whose objects are there, in
                     \* the order new_ptr made them; broken: a handle has been
                     \* released while a later one of its stack was held;
                     \* undone: the handle of the first such release, while
                     \* nothing has been allocated on its stack since (0: none)
  m_buf,             \* RingBuffer: storage, slot -> the object there or Dead
  m_front,           \* RingBuffer: slot of the first element
  m_back,            \* RingBuffer: slot the next PushBack constructs in
  m_size,            \* RingBuffer: number of elements
  m_capacity,        \* RingBuffer: number of slots
  pushed,            \* RingBuffer: the items pushed and not popped since the
                     \* last Clear, oldest first
  last               \* the last call: [op, ret, exc, raw, what]

vars == << kind, m_stack, m_totalStackSize, m_pTop,
           m_memory, m_totalMemSize, m_left, m_right,
           m_pool, m_first, m_total, m_used, m_align, sizeofT, live, freed, fresh,
           mem, ub, wild, markers, stale, owned, cum, ptrs, hist,
           m_buf, m_front, m_back, m_size, m_capacity, pushed, last >>

stackVars == << m_stack, m_totalStackSize, m_pTop, owned, cum >>
dstackVars == << m_memory, m_totalMemSize, m_left, m_right >>
poolConfig == << m_pool, m_total, m_align, sizeofT >>
poolCaller == << live, freed, fresh >>
poolVars == << poolConfig, m_first, m_used, poolCaller >>
ringVars == << m_buf, m_front, m_back, m_size, m_capacity, pushed >>
\* All that belongs to the allocators and their callers.
allocVars == << stackVars, dstackVars, poolVars, mem, ub, wild, markers, stale, ptrs, hist >>

\* What the caller observes of a call: which one, its result, what it threw.
\* raw: for an aligned allocation, the address its inner bump step returned.
Call(op, ret, exc) ==
  [ op |-> op, ret |-> ret, exc |-> exc, raw |-> NULL, what |-> << >> ]
CallRaw(op, ret, exc, raw) ==
  [ op |-> op, ret |-> ret, exc |-> exc, raw |-> raw, what |-> << >> ]

\* The process is alive (no assert() failed) and is still followed.
Running == last.exc # "abort" /\ wild < MaxWild

\* ------------------------------------------------------------------ memory

\* The bytes of [lo, hi) are the allocator's buffer.
InBuffer(a, lo, hi) == lo <= a /\ a < hi

\* A store of one byte: kept when inside the buffer.
Store(m, a, b, lo, hi) ==
  IF InBuffer(a, lo, hi)
    THEN [ x \in DOMAIN m \cup { a } |-> IF x = a THEN b ELSE m[x] ]
    ELSE m

\* What a load of one byte may yield.
Load(m, a) == IF a \in DOMAIN m THEN { m[a] } ELSE ByteSamples

\* Whether the k bytes at a are all tracked.
Tracked(m, a, k) == \A j \in 0 .. k - 1 : (a + j) % SizeMod \in DOMAIN m

\* The tracked bytes below address hi.
Below(m, hi) == [ x \in { y \in DOMAIN m : y < hi } |-> m[x] ]

\* The tracked bytes outside the block [p, p + n).
Outside(m, p, n) == [ x \in { y \in DOMAIN m : y < p \/ y >= p + n } |-> m[x] ]

NoMem == [ x \in {} |-> 0 ]

\* A store of a pointer, least significant byte first, in k bytes at a.
RECURSIVE StoreWord(_, _, _, _, _, _)
StoreWord(m, a, v, k, lo, hi) ==
  IF k = 0 THEN m
  ELSE StoreWord(Store(m, a, v % 256, lo, hi), a + 1, v \div 256, k - 1, lo, hi)

\* What a load of a pointer from the k bytes at a may yield.
RECURSIVE LoadBytes(_, _, _)
LoadBytes(m, a, k) ==
  IF k = 0 THEN { 0 }
  ELSE { b + 256 * w : b \in Load(m, a), w \in LoadBytes(m, a + 1, k - 1) }

LoadWord(m, a, k) == { w % SizeMod : w \in LoadBytes(m, a, k) }

\* Whether all the k bytes at a are inside the buffer [lo, hi).
WordInBuffer(a, k, lo, hi) == lo <= a /\ a + k <= hi

\* ------------------------------------------------------------------- Align

RECURSIVE BitAnd(_, _)
BitAnd(x, y) ==
  IF x = 0 \/ y = 0 THEN 0
  ELSE (x % 2) * (y % 2) + 2 * BitAnd(x \div 2, y \div 2)

\* ptrdiff_t value of a word
Signed(x) == IF x >= SizeMod \div 2 THEN x - SizeMod ELSE x

\* AlignPtr without the rounding to the boundary
AlignPtr_NoRound(addr, align) == [ ok |-> TRUE, p |-> addr ]

\* uintptr_t Align::AlignPtr(uintptr_t addr, size_t align); ok: the assert held
AlignPtr(addr, align) ==
  LET mask == (align - 1) % SizeMod IN
    [ ok |-> BitAnd(align, mask) = 0,
      p  |-> BitAnd((addr + mask) % SizeMod, SizeMod - 1 - mask) ]

\* T* Align::AlignPtrStore(T* orig, size_t align): the pointer returned, and
\* the byte stored at p - 1; ok: both asserts held
AlignPtrStore(orig, align) ==
  LET a == AlignPtr(orig, align)
      p_aligned == IF a.p = orig THEN (orig + align) % SizeMod ELSE a.p
      shift == Signed((p_aligned - orig) % SizeMod)
  IN [ ok |-> a.ok /\ shift > 0 /\ shift <= 256,
       p |-> p_aligned, byte |-> shift % 256 ]

\* UnalignPtr taking the stored byte as the shift, 0 included
UnalignPtr_ZeroIsZero(aligned, byte) == (aligned - byte) % SizeMod

\* T* Align::UnalignPtr(T* aligned), byte being the value of aligned[-1]
UnalignPtr(aligned, byte) ==
  LET shift == IF byte = 0 THEN 256 ELSE byte IN (aligned - shift) % SizeMod

\* ---------------------------------------------------------- Ptr handles

\* A default-constructed Ptr<T, Alloc>.  made, dtors and reclaims are
\* bookkeeping: whether new_ptr filled this variable, and how often T's
\* destructor and the allocator's reclaim step ran for the object it made.
NoPtr ==
  [ m_Ptr |-> NULL, marker |-> InvalidMarker, side |-> LEFT,
    made |-> FALSE, dtors |-> 0, reclaims |-> 0 ]

PtrIds == 1 .. MaxPtrs
\* The handle variables of a caller that holds several handles at a time.
HandleIds == 1 .. MaxHandles

\* The sequence q without the handle variable i
Without(q, i) == SelectSeq(q, LAMBDA x : x # i)

\* The handle variables made after i, still held, on the stack of i
Later(q, i) ==
  { q[k] : k \in { n \in 1 .. Len(q) :
                    /\ \E m \in 1 .. n - 1 : q[m] = i
                    /\ ptrs[q[n]].side = ptrs[i].side } }

\* hist after an allocation on the stack of the given side (ok: it succeeded)
HistAlloc(h, side, ok) ==
  IF ok /\ h.undone # 0 /\ ptrs[h.undone].side = side
    THEN [ h EXCEPT !.undone = 0 ] ELSE h

\* hist after new_ptr for the handle variable i
HistNew(h, i, side, ok) ==
  IF ~ok THEN h
  ELSE [ order |-> Append(Without(h.order, i), i),
         broken |-> h.broken,
         undone |-> IF h.undone = 0 \/ h.undone = i \/ ptrs[h.undone].side = side
                      THEN 0 ELSE h.undone ]

\* hist after delete_ptr on the handle variable i
HistDelete(h, i, ok) ==
  IF ok /\ ptrs[i].reclaims = 0
    THEN [ order |-> Without(h.order, i),
           broken |-> (h.broken \/ Later(h.order, i) # {}),
           undone |-> IF ~h.broken /\ Later(h.order, i) # {} THEN i ELSE h.undone ]
    ELSE h

\* Whether delete_ptr on the handle h is still followed.
Releasable(h) == h.made /\ h.dtors < MaxRelease /\ h.reclaims < MaxRelease

\* delete_ptr without its call of the destructor
Destroy_Skipped(h) == h

\* ptr.m_Ptr->~T()
Destroy(h) == IF h.m_Ptr = NULL THEN h ELSE [ h EXCEPT !.dtors = h.dtors + 1 ]

\* new_ptr without its null test
NewPtrThrows_Never(p, exc) == exc

\* if (!ptr.m_Ptr) throw std::runtime_error(...), in every new_ptr
NewPtrThrows(p, exc) ==
  IF exc = "abort" THEN "abort" ELSE IF p = NULL THEN "runtime_error" ELSE "none"

\* the numbers a failed new_ptr formats into the message of its
\* std::runtime_error, in the order of the format string
Throw(ret, exc, numbers) ==
  [ Call("new_ptr", ret, exc) EXCEPT
      !.what = IF exc = "runtime_error" THEN numbers ELSE << >> ]

\* "StackAllocator stack size = %lu, wanted size = %lu"
StackNewPtrWhat(total, size) == << total, (total + size) % SizeMod >>

\* "Total size = %lu, Left stack size = %lu. Right stack size = %lu.
\* Wanted size = %lu"
DStackNewPtrWhat(total, left, right, size) ==
  << total, left, (total - right) % SizeMod, size >>

\* "Number of free items: " + std::to_string(alloc.GetFree())
PoolNewPtrWhat(total, used) == << (total - used) % SizeMod >>

\* ------------------------------------------------------- StackAllocator

\* Alloc without its m_pTop + n_bytes > m_totalStackSize test
StackAlloc_NoCheck(top, total, stack, n) ==
  [ ret |-> (stack + top) % SizeMod, top |-> (top + n) % SizeMod ]

\* Alloc refusing a request that fills the stack exactly
StackAlloc_OffByOne(top, total, stack, n) ==
  IF (top + n) % SizeMod >= total
    THEN [ ret |-> NULL, top |-> top ]
    ELSE [ ret |-> (stack + top) % SizeMod, top |-> (top + n) % SizeMod ]

\* void* StackAllocator::Alloc(size_t n_bytes)
StackAlloc(top, total, stack, n) ==
  IF (top + n) % SizeMod > total
    THEN [ ret |-> NULL, top |-> top ]
    ELSE [ ret |-> (stack + top) % SizeMod, top |-> (top + n) % SizeMod ]

\* void* StackAllocator::AllocAligned(size_t n_bytes, size_t align)
\* store: whether a shift byte is written, at address at.
StackAllocAligned(top, total, stack, n, align) ==
  LET r == StackAlloc(top, total, stack, (n + align) % SizeMod)
      s == AlignPtrStore(r.ret, align)
  IN IF r.ret = NULL
       THEN [ ret |-> NULL, top |-> r.top, exc |-> "none", raw |-> NULL,
              store |-> FALSE, at |-> NULL, byte |-> 0 ]
       ELSE IF ~s.ok
         THEN [ ret |-> NULL, top |-> r.top, exc |-> "abort", raw |-> r.ret,
                store |-> FALSE, at |-> NULL, byte |-> 0 ]
         ELSE [ ret |-> s.p, top |-> r.top, exc |-> "none", raw |-> r.ret,
                store |-> TRUE, at |-> (s.p - 1) % SizeMod, byte |-> s.byte ]

\* void* StackAllocator::Alloc(size_t n_bytes, Align align)
StackAllocAlign(top, total, stack, n, align) ==
  LET r == StackAlloc(top, total, stack, (n + align - 1) % SizeMod)
      a == AlignPtr(r.ret, align)
  IN IF r.ret = NULL
       THEN [ ret |-> NULL, top |-> r.top, exc |-> "none", raw |-> NULL ]
       ELSE IF ~a.ok
         THEN [ ret |-> NULL, top |-> r.top, exc |-> "abort", raw |-> r.ret ]
         ELSE [ ret |-> a.p, top |-> r.top, exc |-> "none", raw |-> r.ret ]

\* FreeToMarker without its marker > m_pTop test
StackFreeToMarker_NoCheck(top, marker) ==
  [ exc |-> "none", top |-> marker ]

\* FreeToMarker accepting only the marker of the current top
StackFreeToMarker_TopOnly(top, marker) ==
  IF marker # top
    THEN [ exc |-> "invalid_argument", top |-> top ]
    ELSE [ exc |-> "none", top |-> marker ]

\* void StackAllocator::FreeToMarker(const Marker& marker)
StackFreeToMarker(top, marker) ==
  IF marker > top
    THEN [ exc |-> "invalid_argument", top |-> top ]
    ELSE [ exc |-> "none", top |-> marker ]

\* The markers a free down to newTop leaves valid.
StackRollback(newTop) == { mk \in markers : mk.idx <= newTop }

\* The bytes of the StackAllocator's buffer among the n bytes at address p.
Range(p, n) ==
  { a \in m_stack .. m_stack + m_totalStackSize - 1 : (a - p) % SizeMod < n }

\* The bytes of live allocations that a free down to newTop leaves live.
StackOwned(o, newTop) == { a \in o : a < m_stack + newTop }

\* The sum of the sizes asked of Alloc once n more bytes are asked for.
CumAfter(c, n) == IF c >= 0 /\ c + n <= m_totalStackSize THEN c + n ELSE -1

\* The buffer of the StackAllocator is [m_stack, m_stack + m_totalStackSize).
StackStore(m, a, b) == Store(m, a, b, m_stack, m_stack + m_totalStackSize)
StackInBuffer(a) == InBuffer(a, m_stack, m_stack + m_totalStackSize)

\* Bytes at or above the cursor are free for reuse: no longer tracked.
StackLive(m, top) == Below(m, m_stack + top)

Stack_Alloc(n) ==
  /\ kind = "stack" /\ Running
  /\ LET r == StackAlloc(m_pTop, m_totalStackSize, m_stack, n) IN
       /\ m_pTop' = r.top
       /\ mem' = StackLive(mem, r.top)
       /\ owned' = IF r.ret = NULL THEN owned ELSE owned \cup Range(r.ret, n)
       /\ cum' = CumAfter(cum, n)
       /\ last' = Call("Alloc", r.ret, "none")
  /\ hist' = HistAlloc(hist, LEFT, last'.ret # NULL)
  /\ UNCHANGED << ringVars, kind, m_stack, m_totalStackSize, dstackVars, poolVars, ub, wild, markers, stale, ptrs >>

Stack_AllocAligned(n, align) ==
  /\ kind = "stack" /\ Running
  /\ LET r == StackAllocAligned(m_pTop, m_totalStackSize, m_stack, n, align) IN
       /\ m_pTop' = r.top
       /\ mem' = IF r.store THEN StackStore(StackLive(mem, r.top), r.at, r.byte)
                         ELSE StackLive(mem, r.top)
       /\ ub' = (ub \/ (r.store /\ ~StackInBuffer(r.at)))
       /\ wild' = wild
       /\ owned' = IF r.ret = NULL THEN owned
                   ELSE owned \cup Range(r.raw, (n + align) % SizeMod)
       /\ cum' = -1
       /\ last' = CallRaw("AllocAligned", r.ret, r.exc, r.raw)
  /\ hist' = HistAlloc(hist, LEFT, last'.ret # NULL)
  /\ UNCHANGED << ringVars, kind, m_stack, m_totalStackSize, dstackVars, poolVars, markers, stale, ptrs >>

Stack_AllocAlign(n, align) ==
  /\ kind = "stack" /\ Running
  /\ LET r == StackAllocAlign(m_pTop, m_totalStackSize, m_stack, n, align) IN
       /\ m_pTop' = r.top
       /\ mem' = StackLive(mem, r.top)
       /\ owned' = IF r.ret = NULL THEN owned
                   ELSE owned \cup Range(r.raw, (n + align - 1) % SizeMod)
       /\ cum' = -1
       /\ last' = CallRaw("AllocAlign", r.ret, r.exc, r.raw)
  /\ hist' = HistAlloc(hist, LEFT, last'.ret # NULL)
  /\ UNCHANGED << ringVars, kind, m_stack, m_totalStackSize, dstackVars, poolVars, ub, wild, markers, stale, ptrs >>

\* void* StackAllocator::GetAlignedBase(void* p_aligned_mem), called on the
\* pointer the aligned allocation before it returned
Stack_GetAlignedBase ==
  /\ kind = "stack" /\ Running
  /\ last.op \in { "AllocAligned", "AllocAlign" }
  /\ LET p == last.ret IN
       IF p = NULL
         THEN /\ last' = CallRaw("GetAlignedBase", NULL, "none", last.raw)
              /\ ub' = ub
         ELSE /\ \E b \in Load(mem, (p - 1) % SizeMod) :
                   last' = CallRaw("GetAlignedBase", UnalignPtr(p, b), "none", last.raw)
              /\ ub' = (ub \/ ~StackInBuffer((p - 1) % SizeMod))
  /\ UNCHANGED << ringVars, kind, stackVars, dstackVars, poolVars, mem, wild, markers, stale, ptrs, hist >>

\* Marker StackAllocator::GetMarker() const
Stack_GetMarker ==
  /\ kind = "stack" /\ Running
  /\ Cardinality(markers \cup stale) < MaxMarkers
  /\ markers' = markers \cup { [ side |-> LEFT, idx |-> m_pTop ] }
  /\ last' = Call("GetMarker", m_pTop, "none")
  /\ UNCHANGED << ringVars, kind, stackVars, dstackVars, poolVars, mem, ub, wild, stale, ptrs, hist >>

\* The caller forgets a marker, valid or not.
DropMarker(mk) ==
  /\ mk \in markers \cup stale /\ Running
  /\ markers' = markers \ { mk }
  /\ stale' = stale \ { mk }
  /\ UNCHANGED << ringVars, kind, stackVars, dstackVars, poolVars, mem, ub, wild, ptrs, last, hist >>

Stack_FreeToMarker(marker) ==
  /\ kind = "stack" /\ Running
  /\ LET r == StackFreeToMarker(m_pTop, marker) IN
       /\ m_pTop' = r.top
       /\ mem' = StackLive(mem, r.top)
       /\ markers' = IF r.exc = "none" THEN StackRollback(r.top) ELSE markers
       /\ stale' = stale \cup (markers \ markers')
       /\ owned' = StackOwned(owned, r.top)
       /\ cum' = -1
       /\ last' = Call("FreeToMarker", 0, r.exc)
  /\ UNCHANGED << ringVars, kind, m_stack, m_totalStackSize, dstackVars, poolVars, ub, wild, ptrs, hist >>


\* Clear that leaves a full stack as it is
Stack_Clear_UnlessFull ==
  /\ kind = "stack" /\ Running
  /\ m_pTop' = IF m_pTop = m_totalStackSize THEN m_pTop ELSE 0
  /\ mem' = StackLive(mem, m_pTop')
  /\ markers' = StackRollback(m_pTop')
  /\ stale' = stale \cup (markers \ markers')
  /\ owned' = {}
  /\ cum' = -1
  /\ last' = Call("Clear", 0, "none")
  /\ UNCHANGED << ringVars, kind, m_stack, m_totalStackSize, dstackVars, poolVars, ub, wild, ptrs, hist >>

\* void StackAllocator::Clear()
Stack_Clear ==
  /\ kind = "stack" /\ Running
  /\ m_pTop' = 0
  /\ mem' = StackLive(mem, 0)
  /\ markers' = StackRollback(0)
  /\ stale' = stale \cup (markers \ markers')
  /\ owned' = {}
  /\ cum' = -1
  /\ last' = Call("Clear", 0, "none")
  /\ UNCHANGED << ringVars, kind, m_stack, m_totalStackSize, dstackVars, poolVars, ub, wild, ptrs, hist >>

\* Ptr<T, StackAllocator> new_ptr(StackAllocator& alloc, Args... args)
\* with sizeof(T) = size, assigned to the handle variable i
Stack_new_ptr(i, size) ==
  /\ kind = "stack" /\ Running
  /\ LET marker == m_pTop
         r == StackAlloc(m_pTop, m_totalStackSize, m_stack, size)
     IN /\ m_pTop' = r.top
        /\ mem' = StackLive(mem, r.top)
        /\ ub' = ub
        /\ wild' = wild
        /\ owned' = IF r.ret = NULL THEN owned ELSE owned \cup Range(r.ret, size)
        /\ cum' = -1
        /\ ptrs' = IF NewPtrThrows(r.ret, "none") # "none" THEN ptrs
                   ELSE [ ptrs EXCEPT ![i] =
                          [ NoPtr EXCEPT !.m_Ptr = r.ret, !.marker = marker, !.made = TRUE ] ]
        /\ last' = Throw(r.ret, NewPtrThrows(r.ret, "none"),
                         StackNewPtrWhat(m_totalStackSize, size))
  /\ hist' = HistNew(hist, i, LEFT, last'.exc = "none")
  /\ UNCHANGED << ringVars, kind, m_stack, m_totalStackSize, dstackVars, poolVars, markers, stale >>

\* Ptr<T, StackAllocator> new_ptr(StackAllocator& alloc, Align align, Args... args)
Stack_new_ptr_aligned(i, size, align) ==
  /\ kind = "stack" /\ Running
  /\ LET marker == m_pTop
         r == StackAllocAligned(m_pTop, m_totalStackSize, m_stack, size, align)
     IN /\ m_pTop' = r.top
        /\ mem' = IF r.store THEN StackStore(StackLive(mem, r.top), r.at, r.byte)
                         ELSE StackLive(mem, r.top)
        /\ ub' = (ub \/ (r.store /\ ~StackInBuffer(r.at)))
        /\ wild' = wild
        /\ owned' = IF r.ret = NULL THEN owned
                    ELSE owned \cup Range(r.raw, (size + align) % SizeMod)
        /\ cum' = -1
        /\ ptrs' = IF NewPtrThrows(r.ret, r.exc) # "none" THEN ptrs
                   ELSE [ ptrs EXCEPT ![i] =
                          [ NoPtr EXCEPT !.m_Ptr = r.ret, !.marker = marker, !.made = TRUE ] ]
        /\ last' = Throw(r.ret, NewPtrThrows(r.ret, r.exc),
                         StackNewPtrWhat(m_totalStackSize, size))
  /\ hist' = HistNew(hist, i, LEFT, last'.exc = "none")
  /\ UNCHANGED << ringVars, kind, m_stack, m_totalStackSize, dstackVars, poolVars, markers, stale >>

\* void delete_ptr(Ptr<T, StackAllocator>& ptr), on the handle variable i
\* itself or (copy) on a copy the caller made of it
Stack_delete_ptr(i, copy) ==
  /\ kind = "stack" /\ Running
  /\ Releasable(ptrs[i])
  /\ LET h == Destroy(ptrs[i])
         r == StackFreeToMarker(m_pTop, h.marker)
     IN /\ m_pTop' = r.top
        /\ mem' = StackLive(mem, r.top)
        /\ ub' = (ub \/ ptrs[i].m_Ptr = NULL)
        /\ wild' = wild
        /\ owned' = StackOwned(owned, r.top)
        /\ cum' = -1
        /\ ptrs' = [ ptrs EXCEPT ![i] =
              IF r.exc # "none" THEN h
              ELSE [ h EXCEPT !.reclaims = h.reclaims + 1,
                              !.m_Ptr = IF copy THEN h.m_Ptr ELSE NULL ] ]
        /\ last' = Call("delete_ptr", 0, r.exc)
  /\ hist' = HistDelete(hist, i, last'.exc = "none")
  /\ UNCHANGED << ringVars, kind, m_stack, m_totalStackSize, dstackVars, poolVars, markers, stale >>

\* ------------------------------------------------- DoubleStackAllocator

\* Alloc without the m_right - n_bytes < m_left test of the right side
DStackAlloc_RightNoGap(left, right, memory, side, n) ==
  IF side = LEFT
    THEN IF (left + n) % SizeMod > right
           THEN [ ret |-> NULL, left |-> left, right |-> right ]
           ELSE [ ret |-> (memory + left) % SizeMod,
                  left |-> (left + n) % SizeMod, right |-> right ]
    ELSE IF n > right
           THEN [ ret |-> NULL, left |-> left, right |-> right ]
           ELSE [ ret |-> (memory + ((right - n) % SizeMod)) % SizeMod,
                  left |-> left, right |-> (right - n) % SizeMod ]

\* void* DoubleStackAllocator::Alloc(Side side, size_t n_bytes)
DStackAlloc(left, right, memory, side, n) ==
  IF side = LEFT
    THEN IF (left + n) % SizeMod > right
           THEN [ ret |-> NULL, left |-> left, right |-> right ]
           ELSE [ ret |-> (memory + left) % SizeMod,
                  left |-> (left + n) % SizeMod, right |-> right ]
    ELSE IF n > right \/ (right - n) % SizeMod < left
           THEN [ ret |-> NULL, left |-> left, right |-> right ]
           ELSE [ ret |-> (memory + ((right - n) % SizeMod)) % SizeMod,
                  left |-> left, right |-> (right - n) % SizeMod ]

\* The aligned Alloc asking the plain one for n_bytes + align bytes
DStackAllocAlign_FullAlign(left, right, memory, side, n, align) ==
  LET r == DStackAlloc(left, right, memory, side, (n + align) % SizeMod)
      a == AlignPtr(r.ret, align)
  IN [ ret |-> IF r.ret = NULL THEN NULL ELSE a.p, left |-> r.left, right |-> r.right,
       exc |-> "none", raw |-> r.ret ]

\* void* DoubleStackAllocator::Alloc(Side side, size_t n_bytes, Align align)
DStackAllocAlign(left, right, memory, side, n, align) ==
  LET r == DStackAlloc(left, right, memory, side, (n + align - 1) % SizeMod)
      a == AlignPtr(r.ret, align)
  IN IF r.ret = NULL
       THEN [ ret |-> NULL, left |-> r.left, right |-> r.right, exc |-> "none", raw |-> NULL ]
       ELSE IF ~a.ok
         THEN [ ret |-> NULL, left |-> r.left, right |-> r.right, exc |-> "abort", raw |-> r.ret ]
         ELSE [ ret |-> a.p, left |-> r.left, right |-> r.right, exc |-> "none", raw |-> r.ret ]

\* FreeToMarker without the marker.idx < m_right test of the right side
DStackFreeToMarker_RightNoCheck(left, right, side, idx) ==
  IF side = LEFT
    THEN IF idx > left
           THEN [ exc |-> "invalid_argument", left |-> left, right |-> right ]
           ELSE [ exc |-> "none", left |-> idx, right |-> right ]
    ELSE [ exc |-> "none", left |-> left, right |-> idx ]

\* void DoubleStackAllocator::FreeToMarker(const Marker& marker)
DStackFreeToMarker(left, right, side, idx) ==
  IF side = LEFT
    THEN IF idx > left
           THEN [ exc |-> "invalid_argument", left |-> left, right |-> right ]
           ELSE [ exc |-> "none", left |-> idx, right |-> right ]
    ELSE IF idx < right
           THEN [ exc |-> "invalid_argument", left |-> left, right |-> right ]
           ELSE [ exc |-> "none", left |-> left, right |-> idx ]

\* The markers a free leaves valid.
DStackRollback(newLeft, newRight) ==
  { mk \in markers : IF mk.side = LEFT THEN mk.idx <= newLeft ELSE mk.idx >= newRight }

DStack_Alloc(side, n) ==
  /\ kind = "dstack" /\ Running
  /\ LET r == DStackAlloc(m_left, m_right, m_memory, side, n) IN
       /\ m_left' = r.left
       /\ m_right' = r.right
       /\ last' = Call("Alloc", r.ret, "none")
  /\ hist' = HistAlloc(hist, side, last'.ret # NULL)
  /\ UNCHANGED << ringVars, kind, stackVars, poolVars, m_memory, m_totalMemSize, mem, ub, wild, markers, stale, ptrs >>

DStack_AllocAlign(side, n, align) ==
  /\ kind = "dstack" /\ Running
  /\ LET r == DStackAllocAlign(m_left, m_right, m_memory, side, n, align) IN
       /\ m_left' = r.left
       /\ m_right' = r.right
       /\ last' = CallRaw("AllocAlign", r.ret, r.exc, r.raw)
  /\ hist' = HistAlloc(hist, side, last'.ret # NULL)
  /\ UNCHANGED << ringVars, kind, stackVars, poolVars, m_memory, m_totalMemSize, mem, ub, wild, markers, stale, ptrs >>

\* Marker DoubleStackAllocator::GetMarker(Side side) const
DStack_GetMarker(side) ==
  /\ kind = "dstack" /\ Running
  /\ Cardinality(markers \cup stale) < MaxMarkers
  /\ LET idx == IF side = LEFT THEN m_left ELSE m_right IN
       /\ markers' = markers \cup { [ side |-> side, idx |-> idx ] }
       /\ last' = Call("GetMarker", idx, "none")
  /\ UNCHANGED << ringVars, kind, stackVars, dstackVars, poolVars, mem, ub, wild, stale, ptrs, hist >>

DStack_FreeToMarker(side, idx) ==
  /\ kind = "dstack" /\ Running
  /\ LET r == DStackFreeToMarker(m_left, m_right, side, idx) IN
       /\ m_left' = r.left
       /\ m_right' = r.right
       /\ markers' = IF r.exc = "none" THEN DStackRollback(r.left, r.right) ELSE markers
       /\ stale' = stale \cup (markers \ markers')
       /\ last' = Call("FreeToMarker", 0, r.exc)
  /\ UNCHANGED << ringVars, kind, stackVars, poolVars, m_memory, m_totalMemSize, mem, ub, wild, ptrs, hist >>

\* Clear(side) emptying both stacks, as ClearAll does
DStack_Clear_Both(side) ==
  /\ kind = "dstack" /\ Running
  /\ m_left' = 0
  /\ m_right' = m_totalMemSize
  /\ markers' = DStackRollback(m_left', m_right')
  /\ stale' = stale \cup (markers \ markers')
  /\ last' = Call("Clear", 0, "none")
  /\ UNCHANGED << ringVars, kind, stackVars, poolVars, m_memory, m_totalMemSize, mem, ub, wild, ptrs, hist >>

\* void DoubleStackAllocator::Clear(Side side)
DStack_Clear(side) ==
  /\ kind = "dstack" /\ Running
  /\ m_left' = IF side = LEFT THEN 0 ELSE m_left
  /\ m_right' = IF side = LEFT THEN m_right ELSE m_totalMemSize
  /\ markers' = DStackRollback(m_left', m_right')
  /\ stale' = stale \cup (markers \ markers')
  /\ last' = Call("Clear", 0, "none")
  /\ UNCHANGED << ringVars, kind, stackVars, poolVars, m_memory, m_totalMemSize, mem, ub, wild, ptrs, hist >>

\* void DoubleStackAllocator::ClearAll()
DStack_ClearAll ==
  /\ kind = "dstack" /\ Running
  /\ m_left' = 0
  /\ m_right' = m_totalMemSize
  /\ markers' = DStackRollback(0, m_totalMemSize)
  /\ stale' = stale \cup (markers \ markers')
  /\ last' = Call("ClearAll", 0, "none")
  /\ UNCHANGED << ringVars, kind, stackVars, poolVars, m_memory, m_totalMemSize, mem, ub, wild, ptrs, hist >>

\* size_t DoubleStackAllocator::GetCurrentSize(Side side) const
DStackGetCurrentSize(side) ==
  IF side = LEFT THEN m_left ELSE (m_totalMemSize - m_right) % SizeMod

\* Ptr<T, DoubleStackAllocator> new_ptr(DoubleStackAllocator& alloc,
\*                                      AllocSide side, Args... args)
DStack_new_ptr(i, side, size) ==
  /\ kind = "dstack" /\ Running
  /\ LET marker == IF side = LEFT THEN m_left ELSE m_right
         r == DStackAlloc(m_left, m_right, m_memory, side, size)
     IN /\ m_left' = r.left
        /\ m_right' = r.right
        /\ ptrs' = IF NewPtrThrows(r.ret, "none") # "none" THEN ptrs
                   ELSE [ ptrs EXCEPT ![i] =
                          [ NoPtr EXCEPT !.m_Ptr = r.ret, !.marker = marker,
                                         !.side = side, !.made = TRUE ] ]
        /\ last' = Throw(r.ret, NewPtrThrows(r.ret, "none"),
                         DStackNewPtrWhat(m_totalMemSize, m_left, m_right, size))
  /\ hist' = HistNew(hist, i, side, last'.exc = "none")
  /\ UNCHANGED << ringVars, kind, stackVars, poolVars, m_memory, m_totalMemSize, mem, ub, wild, markers, stale >>

\* void delete_ptr(Ptr<T, DoubleStackAllocator>& ptr); ptr-> asserts that
\* m_Ptr is not null
DStack_delete_ptr(i, copy) ==
  /\ kind = "dstack" /\ Running
  /\ Releasable(ptrs[i])
  /\ IF ptrs[i].m_Ptr = NULL
       THEN /\ last' = Call("delete_ptr", 0, "abort")
            /\ UNCHANGED << m_left, m_right, ptrs >>
       ELSE LET h == Destroy(ptrs[i])
                r == DStackFreeToMarker(m_left, m_right, h.side, h.marker)
            IN /\ m_left' = r.left
               /\ m_right' = r.right
               /\ ptrs' = [ ptrs EXCEPT ![i] =
                     IF r.exc # "none" THEN h
                     ELSE [ h EXCEPT !.reclaims = h.reclaims + 1,
                                     !.m_Ptr = IF copy THEN h.m_Ptr ELSE NULL ] ]
               /\ last' = Call("delete_ptr", 0, r.exc)
  /\ hist' = HistDelete(hist, i, last'.exc = "none")
  /\ UNCHANGED << ringVars, kind, stackVars, poolVars, m_memory, m_totalMemSize, mem, ub, wild, markers, stale >>

\* ----------------------------------------------------------- PoolAllocator

\* max(sizeof(T), sizeof(uint8_t*))
ItemSize(size) == IF size >= PtrSize THEN size ELSE PtrSize

\* The bytes malloc gave the constructor: (num_items + align) * item_size
PoolBytes(num_items, align, size) == ((num_items + align) * ItemSize(size)) % SizeMod

\* size_t step = item_size + align
PoolStep(align, size) == (ItemSize(size) + align) % SizeMod

\* m_pool + i * step
PoolSlot(i) == (m_pool + i * PoolStep(m_align, sizeofT)) % SizeMod

\* One byte past the buffer of the pool.
PoolEnd == m_pool + PoolBytes(m_total, m_align, sizeofT)

\* The constructor's loop from item i on: every item points to its right
\* neighbour, the last one to nullptr.
RECURSIVE PoolLinks(_, _, _, _, _, _)
PoolLinks(m, i, pool, num_items, step, hi) ==
  IF i >= num_items THEN m
  ELSE PoolLinks(StoreWord(m, (pool + i * step) % SizeMod,
                           IF i = num_items - 1 THEN NULL
                                                ELSE (pool + (i + 1) * step) % SizeMod,
                           PtrSize, pool, hi),
                 i + 1, pool, num_items, step, hi)

\* Whether the constructor's loop stays inside the buffer.
PoolLinksInBuffer(pool, num_items, step, hi) ==
  \A i \in 0 .. num_items - 1 : WordInBuffer(pool + i * step, PtrSize, pool, hi)

\* T* PoolAllocator<T>::Alloc(), but for the load of *m_first.
\* pop: the head is taken; store: the shift byte is written at address at.
PoolAlloc(first, used, total, align) ==
  LET a == AlignPtrStore(first, align) IN
    IF used = total
      THEN [ ret |-> NULL, exc |-> "none", used |-> used,
             pop |-> FALSE, store |-> FALSE, at |-> NULL, byte |-> 0 ]
      ELSE IF ~a.ok
        THEN [ ret |-> NULL, exc |-> "abort", used |-> used,
               pop |-> TRUE, store |-> FALSE, at |-> NULL, byte |-> 0 ]
        ELSE [ ret |-> a.p, exc |-> "none", used |-> (used + 1) % SizeMod,
               pop |-> TRUE, store |-> TRUE, at |-> (a.p - 1) % SizeMod, byte |-> a.byte ]

\* What Alloc() does to the pool.  The block handed out is the caller's to
\* write: its bytes are no longer tracked.
PoolAllocStep(r) ==
  /\ IF r.pop
       THEN \E next \in LoadWord(mem, m_first, PtrSize) : m_first' = next
       ELSE m_first' = m_first
  /\ m_used' = r.used
  /\ mem' = IF r.store
              THEN Outside(Store(mem, r.at, r.byte, m_pool, PoolEnd), r.ret, sizeofT)
              ELSE mem
  /\ ub' = \/ ub
           \/ r.pop /\ ~WordInBuffer(m_first, PtrSize, m_pool, PoolEnd)
           \/ r.store /\ ~InBuffer(r.at, m_pool, PoolEnd)
  /\ wild' = IF r.pop /\ ~Tracked(mem, m_first, PtrSize) THEN wild + 1 ELSE wild

\* What Free(ptr) does to the pool, ptr not null; handedOut: ptr is an item
\* Alloc() returned and that has not been freed since.
PoolFreeStep(ptr, handedOut) ==
  \E b \in Load(mem, (ptr - 1) % SizeMod) :
    LET u8_ptr == UnalignPtr(ptr, b) IN
      /\ mem' = StoreWord(mem, u8_ptr, m_first, PtrSize, m_pool, PoolEnd)
      /\ m_first' = u8_ptr
      /\ m_used' = (m_used - 1) % SizeMod
      /\ ub' = \/ ub
               \/ ~InBuffer((ptr - 1) % SizeMod, m_pool, PoolEnd)
               \/ ~WordInBuffer(u8_ptr, PtrSize, m_pool, PoolEnd)
      /\ wild' = IF Tracked(mem, ptr - 1, 1) /\ handedOut THEN wild ELSE wild + 1

Pool_Alloc ==
  /\ kind = "pool" /\ Running
  /\ LET r == PoolAlloc(m_first, m_used, m_total, m_align) IN
       /\ PoolAllocStep(r)
       /\ live' = IF r.ret = NULL THEN live ELSE live \cup { r.ret }
       /\ freed' = IF r.ret = NULL \/ freed = << >> THEN freed ELSE Tail(freed)
       /\ last' = Call("Alloc", r.ret, r.exc)
  /\ UNCHANGED << ringVars, kind, stackVars, dstackVars, poolConfig, fresh, markers, stale, ptrs, hist >>

\* void PoolAllocator<T>::Free(T* ptr), ptr being null or a live pointer
Pool_Free(ptr) ==
  /\ kind = "pool" /\ Running
  /\ ptr \in live \cup { NULL }
  /\ IF ptr = NULL
       THEN UNCHANGED << m_first, m_used, mem, ub, wild, poolCaller >>
       ELSE /\ PoolFreeStep(ptr, TRUE)
            /\ live' = live \ { ptr }
            /\ freed' = << ptr >> \o freed
            /\ fresh' = FALSE
  /\ last' = Call("Free", 0, "none")
  /\ UNCHANGED << ringVars, kind, stackVars, dstackVars, poolConfig, markers, stale, ptrs, hist >>

\* auto new_ptr(PoolAllocator<T>& alloc, Args... args)
Pool_new_ptr(i) ==
  /\ kind = "pool" /\ Running
  /\ LET r == PoolAlloc(m_first, m_used, m_total, m_align) IN
       /\ PoolAllocStep(r)
       /\ ptrs' = IF NewPtrThrows(r.ret, r.exc) # "none" THEN ptrs
                  ELSE [ ptrs EXCEPT ![i] = [ NoPtr EXCEPT !.m_Ptr = r.ret, !.made = TRUE ] ]
       /\ last' = Throw(r.ret, NewPtrThrows(r.ret, r.exc),
                        PoolNewPtrWhat(m_total, m_used))
  /\ UNCHANGED << ringVars, kind, stackVars, dstackVars, poolConfig, poolCaller, markers, stale, hist >>

\* void delete_ptr(Ptr<T, PoolAllocator<T>>& ptr): Delete(ptr.m_Ptr), which
\* destroys the object and frees it; the handle is left as it was
Pool_delete_ptr(i) ==
  /\ kind = "pool" /\ Running
  /\ Releasable(ptrs[i])
  /\ IF ptrs[i].m_Ptr = NULL
       THEN UNCHANGED << m_first, m_used, mem, ub, wild, ptrs >>
       ELSE /\ PoolFreeStep(ptrs[i].m_Ptr, ptrs[i].reclaims = 0)
            /\ ptrs' = [ ptrs EXCEPT ![i] =
                  [ Destroy(ptrs[i]) EXCEPT !.reclaims = ptrs[i].reclaims + 1 ] ]
  /\ last' = Call("delete_ptr", 0, "none")
  /\ UNCHANGED << ringVars, kind, stackVars, dstackVars, poolConfig, poolCaller, markers, stale, hist >>

\* ------------------------------------------------ the Align functions alone

\* Addresses of the memory the caller hands to the Align functions.
RawAddrs == { b + d : b \in BaseAddrs, d \in 0 .. MaxRawOffset }
\* The powers of two AlignPtrStore can store the shift of.
ShiftAligns == { 2 ^ k : k \in 0 .. MaxShiftLog }
\* The alignments the caller passes, right or wrong.
AlignInputs == ShiftAligns \cup (0 .. MaxOddAlign)

\* bool Align::operator==(const size_t& rhs) const
AlignEq(m_Bytes, rhs) == m_Bytes = rhs

\* bool Align::operator!=(const size_t& rhs) const
AlignNe(m_Bytes, rhs) == m_Bytes = rhs

\* bool Align::operator<(const size_t& rhs) const
AlignLt(m_Bytes, rhs) == m_Bytes = rhs

\* bool Align::operator>(const size_t& rhs) const
AlignGt(m_Bytes, rhs) == m_Bytes = rhs

\* Align(last.ret) compared with rhs by the operator op; the bool returned
\* is 1 or 0
Align_Compare(op, rhs) ==
  /\ kind = "align" /\ Running
  /\ last.op = "args"
  /\ LET b == CASE op = "==" -> AlignEq(last.ret, rhs)
                [] op = "!=" -> AlignNe(last.ret, rhs)
                [] op = "<" -> AlignLt(last.ret, rhs)
                [] op = ">" -> AlignGt(last.ret, rhs)
     IN last' = CallRaw(op, IF b THEN 1 ELSE 0, "none", rhs)
  /\ UNCHANGED << ringVars, kind, stackVars, dstackVars, poolVars, mem, ub, wild, markers, stale, ptrs, hist >>

\* Align::AlignPtr(addr, align) called by itself, on the arguments the
\* caller has ready: last.raw is the address and last.ret the alignment
Align_AlignPtr ==
  /\ kind = "align" /\ Running
  /\ last.op = "args"
  /\ LET a == AlignPtr(last.raw, last.ret) IN
       last' = CallRaw("AlignPtr", IF a.ok THEN a.p ELSE NULL,
                       IF a.ok THEN "none" ELSE "abort", last.raw)
  /\ UNCHANGED << ringVars, kind, stackVars, dstackVars, poolVars, mem, ub, wild, markers, stale, ptrs, hist >>

\* Align::AlignPtrStore(orig, align) called by itself on memory of the
\* caller; mem holds the byte it wrote
Align_AlignPtrStore ==
  /\ kind = "align" /\ Running
  /\ last.op = "args"
  /\ LET s == AlignPtrStore(last.raw, last.ret) IN
       /\ mem' = IF s.ok THEN [ x \in { (s.p - 1) % SizeMod } |-> s.byte ] ELSE NoMem
       /\ last' = CallRaw("AlignPtrStore", IF s.ok THEN s.p ELSE NULL,
                          IF s.ok THEN "none" ELSE "abort", last.raw)
  /\ UNCHANGED << ringVars, kind, stackVars, dstackVars, poolVars, ub, wild, markers, stale, ptrs, hist >>

\* Align::UnalignPtr(aligned) on the pointer AlignPtrStore has just returned
Align_UnalignPtr ==
  /\ kind = "align" /\ Running
  /\ last.op = "AlignPtrStore"
  /\ \E b \in Load(mem, (last.ret - 1) % SizeMod) :
       last' = CallRaw("UnalignPtr", UnalignPtr(last.ret, b), "none", last.raw)
  /\ UNCHANGED << ringVars, kind, stackVars, dstackVars, poolVars, mem, ub, wild, markers, stale, ptrs, hist >>

\* ------------------------------------------------------------- RingBuffer

\* size_t RingBuffer<T>::Size() const
Size == m_size

\* bool RingBuffer<T>::Empty() const
Empty == m_size = 0

\* What a copy of the object in slot buf_index of b may yield: that object;
\* where there is none, the copy is undefined and may yield anything.
ReadItem(b, buf_index) ==
  IF b[buf_index] # Dead THEN { b[buf_index] } ELSE RingItems \cup { Dead }

\* void RingBuffer<T>::newItem(const T& item, size_t buf_index)
newItem(b, item, buf_index) == [ b EXCEPT ![buf_index] = item ]

\* void RingBuffer<T>::deleteItem(size_t buf_index)
deleteItem(b, buf_index) == [ b EXCEPT ![buf_index] = Dead ]

\* What the caller may observe of the call op that ran into undefined
\* behaviour: one of the results rets, or the death of the process.
Undefined(op, rets) ==
  { Call(op, r, "none") : r \in rets } \cup { Call(op, 0, "abort") }

\* T& RingBuffer<T>::PushBack(const T& item); the reference it returns is
\* observed as the slot it refers to.  On a full buffer it destroys the
\* object in slot m_front: undefined when that slot holds none.
Ring_PushBack(item) ==
  /\ kind = "ring" /\ Running
  /\ Len(pushed) < MaxPushed
  /\ LET full == m_size = m_capacity
         b == IF full THEN deleteItem(m_buf, m_front) ELSE m_buf
     IN /\ m_buf' = newItem(b, item, m_back)
        /\ m_front' = IF full THEN (m_front + 1) % m_capacity ELSE m_front
        /\ m_size' = IF full THEN m_size ELSE m_size + 1
        /\ m_back' = (m_back + 1) % m_capacity
        /\ last' \in IF full /\ m_buf[m_front] = Dead
                       THEN Undefined("PushBack", { m_back })
                       ELSE { Call("PushBack", m_back, "none") }
  /\ pushed' = Append(pushed, item)
  /\ UNCHANGED << kind, m_capacity, allocVars >>

\* T RingBuffer<T>::PopFront(); it copies and destroys the object in slot
\* m_front: undefined when that slot holds none.
Ring_PopFront ==
  /\ kind = "ring" /\ Running
  /\ IF m_size = 0
       THEN /\ last' = Call("PopFront", 0, "length_error")
            /\ UNCHANGED ringVars
       ELSE /\ m_buf' = deleteItem(m_buf, m_front)
            /\ m_front' = (m_front + 1) % m_capacity
            /\ m_size' = m_size - 1
            /\ last' \in IF m_buf[m_front] = Dead
                           THEN Undefined("PopFront", ReadItem(m_buf, m_front))
                           ELSE { Call("PopFront", m_buf[m_front], "none") }
            /\ pushed' = [ j \in 1 .. Len(pushed) - 1 |->
                             IF j < Len(pushed) - m_size + 1
                               THEN pushed[j] ELSE pushed[j + 1] ]
            /\ UNCHANGED << m_back, m_capacity >>
  /\ UNCHANGED << kind, allocVars >>

\* T RingBuffer<T>::PopBack(); it copies and destroys the object in slot
\* m_back, and flows off its end without a return statement: undefined.
Ring_PopBack ==
  /\ kind = "ring" /\ Running
  /\ IF m_size = 0
       THEN /\ last' = Call("PopBack", 0, "length_error")
            /\ UNCHANGED ringVars
       ELSE /\ m_buf' = deleteItem(m_buf, m_back)
            /\ m_back' = IF m_back = 0 THEN m_capacity - 1 ELSE m_back - 1
            /\ m_size' = m_size - 1
            /\ last' \in Undefined("PopBack", RingItems \cup { Dead })
            /\ pushed' = SubSeq(pushed, 1, Len(pushed) - 1)
            /\ UNCHANGED << m_front, m_capacity >>
  /\ UNCHANGED << kind, allocVars >>

\* std::optional<std::reference_wrapper<T>> RingBuffer<T>::Front(); the
\* reference is observed as the slot it refers to.
Ring_Front ==
  /\ kind = "ring" /\ Running
  /\ last' = Call("Front", IF m_size = 0 THEN NoRef ELSE m_front, "none")
  /\ UNCHANGED << kind, ringVars, allocVars >>

\* std::optional<std::reference_wrapper<T>> RingBuffer<T>::Back()
Ring_Back ==
  /\ kind = "ring" /\ Running
  /\ last' = Call("Back", IF m_size = 0 THEN NoRef ELSE m_back, "none")
  /\ UNCHANGED << kind, ringVars, allocVars >>

\* void RingBuffer<T>::Clear(); it destroys the objects in the Size() slots
\* from m_front on: undefined when one of them holds none.
Ring_Clear ==
  /\ kind = "ring" /\ Running
  /\ LET slots == { (m_front + i) % m_capacity : i \in 0 .. m_size - 1 }
     IN /\ m_buf' = [ s \in DOMAIN m_buf |-> IF s \in slots THEN Dead ELSE m_buf[s] ]
        /\ last' \in IF \E s \in slots : m_buf[s] = Dead
                       THEN Undefined("Clear", { 0 })
                       ELSE { Call("Clear", 0, "none") }
  /\ m_front' = 0 /\ m_back' = 0 /\ m_size' = 0
  /\ pushed' = << >>
  /\ UNCHANGED << kind, m_capacity, allocVars >>

\* T& RingBuffer<T>::at(size_t index); the reference is observed as the slot
\* it refers to.
Ring_at(index) ==
  /\ kind = "ring" /\ Running
  /\ last' = IF index >= m_size
               THEN Call("at", 0, "out_of_range")
               ELSE Call("at", (m_front + index) % m_capacity, "none")
  /\ UNCHANGED << kind, ringVars, allocVars >>

\* --------------------------------------------------------- specification

\* No RingBuffer.
NoRing ==
  /\ m_buf = << >> /\ m_front = 0 /\ m_back = 0 /\ m_size = 0 /\ m_capacity = 0
  /\ pushed = << >>

\* The caller of a freshly constructed allocator holds nothing yet.
InitCaller ==
  /\ markers = {} /\ stale = {}
  /\ ptrs = [ i \in HandleIds |-> NoPtr ]
  /\ hist = [ order |-> << >>, broken |-> FALSE, undone |-> 0 ]
  /\ live = {} /\ freed = << >> /\ fresh = TRUE
  /\ last = Call("new", 0, "none")

\* StackAllocator::StackAllocator(size_t stack_size), for a valid stack_size
InitStack ==
  /\ kind = "stack"
  /\ m_stack \in StackBaseAddrs
  /\ m_totalStackSize \in StackSizes
  /\ m_pTop = 0 /\ owned = {} /\ cum = 0
  /\ m_memory = NULL /\ m_totalMemSize = 0 /\ m_left = 0 /\ m_right = 0
  /\ m_pool = NULL /\ m_first = NULL /\ m_total = 0 /\ m_used = 0
  /\ m_align = 0 /\ sizeofT = 0
  /\ mem = NoMem /\ ub = FALSE /\ wild = 0
  /\ NoRing
  /\ InitCaller

\* DoubleStackAllocator::DoubleStackAllocator(size_t total_size)
InitDStack ==
  /\ kind = "dstack"
  /\ m_memory \in BaseAddrs
  /\ m_totalMemSize \in StackSizes
  /\ m_left = 0
  /\ m_right = m_totalMemSize
  /\ m_stack = NULL /\ m_totalStackSize = 0 /\ m_pTop = 0 /\ owned = {} /\ cum = 0
  /\ m_pool = NULL /\ m_first = NULL /\ m_total = 0 /\ m_used = 0
  /\ m_align = 0 /\ sizeofT = 0
  /\ mem = NoMem /\ ub = FALSE /\ wild = 0
  /\ NoRing
  /\ InitCaller

\* PoolAllocator<T>::PoolAllocator(size_t num_items, size_t align)
InitPool ==
  /\ kind = "pool"
  /\ m_pool \in BaseAddrs
  /\ m_total \in PoolCounts
  /\ m_align \in Aligns
  /\ sizeofT \in TypeSizes
  /\ m_used = 0
  /\ m_first = m_pool
  /\ mem = PoolLinks(NoMem, 0, m_pool, m_total, PoolStep(m_align, sizeofT),
                     m_pool + PoolBytes(m_total, m_align, sizeofT))
  /\ ub = ~PoolLinksInBuffer(m_pool, m_total, PoolStep(m_align, sizeofT),
                             m_pool + PoolBytes(m_total, m_align, sizeofT))
  /\ wild = 0
  /\ m_stack = NULL /\ m_totalStackSize = 0 /\ m_pTop = 0 /\ owned = {} /\ cum = 0
  /\ m_memory = NULL /\ m_totalMemSize = 0 /\ m_left = 0 /\ m_right = 0
  /\ NoRing
  /\ InitCaller

\* A StackAllocator driven through its own interface.
NextStack ==
  \/ \E n \in AllocSizes : Stack_Alloc(n)
  \/ \E n \in AllocSizes, a \in Aligns : Stack_AllocAligned(n, a)
  \/ \E n \in AllocSizes, a \in Aligns : Stack_AllocAlign(n, a)
  \/ Stack_GetAlignedBase
  \/ Stack_GetMarker
  \/ \E mk \in markers : DropMarker(mk)
  \/ \E m \in MarkerInputs : Stack_FreeToMarker(m)
  \/ Stack_Clear

SpecStack == InitStack /\ [][NextStack]_vars

\* A DoubleStackAllocator driven through its own interface.
NextDStack ==
  \/ \E s \in { LEFT, RIGHT }, n \in AllocSizes : DStack_Alloc(s, n)
  \/ \E s \in { LEFT, RIGHT }, n \in AllocSizes, a \in Aligns : DStack_AllocAlign(s, n, a)
  \/ \E s \in { LEFT, RIGHT } : DStack_GetMarker(s)
  \/ \E mk \in markers : DropMarker(mk)
  \/ \E s \in { LEFT, RIGHT }, m \in 0 .. m_totalMemSize : DStack_FreeToMarker(s, m)
  \/ \E s \in { LEFT, RIGHT } : DStack_Clear(s)
  \/ DStack_ClearAll

SpecDStack == InitDStack /\ [][NextDStack]_vars

\* A PoolAllocator driven through its own interface.
NextPool ==
  \/ Pool_Alloc
  \/ \E p \in live \cup { NULL } : Pool_Free(p)

SpecPool == InitPool /\ [][NextPool]_vars

\* The allocators driven through Ptr handles (and plain Alloc).
InitPtr == InitStack \/ InitDStack \/ InitPool

NextPtr ==
  \/ \E n \in AllocSizes : Stack_Alloc(n)
  \/ \E i \in PtrIds, t \in TypeSizes : Stack_new_ptr(i, t)
  \/ \E i \in PtrIds, t \in TypeSizes, a \in Aligns : Stack_new_ptr_aligned(i, t, a)
  \/ \E i \in PtrIds, c \in BOOLEAN : Stack_delete_ptr(i, c)
  \/ \E s \in { LEFT, RIGHT }, n \in AllocSizes : DStack_Alloc(s, n)
  \/ \E i \in PtrIds, s \in { LEFT, RIGHT }, t \in TypeSizes : DStack_new_ptr(i, s, t)
  \/ \E i \in PtrIds, c \in BOOLEAN : DStack_delete_ptr(i, c)
  \/ \E i \in PtrIds : Pool_new_ptr(i)
  \/ \E i \in PtrIds : Pool_delete_ptr(i)

SpecPtr == InitPtr /\ [][NextPtr]_vars

\* The handle variables that read as non-empty.
Held == { i \in HandleIds : ptrs[i].m_Ptr # NULL }

\* A caller holding several handles of a StackAllocator, who also allocates
\* without handles, calls delete_ptr only on handles that read as non-empty,
\* and keeps the aligned objects in the first handle variables.
InitHandles == InitStack

NextHandles ==
  \/ \E n \in AllocSizes : Stack_Alloc(n)
  \/ \E i \in HandleIds, t \in TypeSizes : Stack_new_ptr(i, t)
  \/ \E i \in PtrIds, t \in TypeSizes, a \in Aligns : Stack_new_ptr_aligned(i, t, a)
  \/ \E i \in Held : Stack_delete_ptr(i, FALSE)

SpecHandles == InitHandles /\ [][NextHandles]_vars

\* The same caller with the unaligned handles of a StackAllocator or of
\* either side of a DoubleStackAllocator.
InitOrder == InitStack \/ (InitDStack /\ m_memory \in StackBaseAddrs)

NextOrder ==
  \/ \E n \in AllocSizes : Stack_Alloc(n)
  \/ \E i \in HandleIds, t \in TypeSizes : Stack_new_ptr(i, t)
  \/ \E i \in Held : Stack_delete_ptr(i, FALSE)
  \/ \E s \in { LEFT, RIGHT }, n \in AllocSizes : DStack_Alloc(s, n)
  \/ \E i \in HandleIds, s \in { LEFT, RIGHT }, t \in TypeSizes : DStack_new_ptr(i, s, t)
  \/ \E i \in Held : DStack_delete_ptr(i, FALSE)

SpecOrder == InitOrder /\ [][NextOrder]_vars

\* No allocator: the caller has memory of its own at some address and an
\* alignment, and calls the Align functions on them.
InitAlignUtil ==
  /\ kind = "align"
  /\ m_stack = NULL /\ m_totalStackSize = 0 /\ m_pTop = 0 /\ owned = {} /\ cum = 0
  /\ m_memory = NULL /\ m_totalMemSize = 0 /\ m_left = 0 /\ m_right = 0
  /\ m_pool = NULL /\ m_first = NULL /\ m_total = 0 /\ m_used = 0
  /\ m_align = 0 /\ sizeofT = 0
  /\ mem = NoMem /\ ub = FALSE /\ wild = 0
  /\ markers = {} /\ stale = {}
  /\ ptrs = [ i \in HandleIds |-> NoPtr ]
  /\ hist = [ order |-> << >>, broken |-> FALSE, undone |-> 0 ]
  /\ live = {} /\ freed = << >> /\ fresh = TRUE
  /\ NoRing
  /\ \E r \in RawAddrs, a \in AlignInputs : last = CallRaw("args", a, "none", r)

NextAlignUtil ==
  \/ Align_AlignPtr
  \/ Align_AlignPtrStore
  \/ Align_UnalignPtr
  \/ \E op \in { "==", "!=", "<", ">" }, n \in AlignInputs : Align_Compare(op, n)

SpecAlignUtil == InitAlignUtil /\ [][NextAlignUtil]_vars

\* The stack_size or total_size given to a constructor.
CtorSizes == (0 .. MaxStackSize) \cup { InvalidMarker }

\* bool StackAllocator::Empty()
StackEmpty == m_pTop = 0

\* size_t StackAllocator::GetSize() const
StackGetSize == m_totalStackSize

\* bool DoubleStackAllocator::Empty(Side side)
DStackEmpty(side) == IF side = LEFT THEN m_left = 0 ELSE m_right = m_totalMemSize

\* bool DoubleStackAllocator::EmptyBoth()
DStackEmptyBoth == DStackEmpty(LEFT) /\ DStackEmpty(RIGHT)

\* size_t DoubleStackAllocator::GetSize() const
DStackGetSize == m_totalMemSize

\* the constructor without its stack_size == InvalidMarker test
Stack_ctor_ZeroOnly(stack_size) ==
  /\ kind = "none" /\ Running
  /\ IF stack_size = 0
       THEN /\ last' = Call("StackAllocator", stack_size, "invalid_argument")
            /\ UNCHANGED << kind, stackVars >>
       ELSE /\ kind' = "stack"
            /\ m_stack' \in StackBaseAddrs
            /\ m_totalStackSize' = stack_size
            /\ m_pTop' = 0
            /\ UNCHANGED << owned, cum >>
            /\ last' = Call("StackAllocator", stack_size, "none")
  /\ UNCHANGED << ringVars, dstackVars, poolVars, mem, ub, wild, markers, stale, ptrs, hist >>

\* StackAllocator::StackAllocator(size_t stack_size), for any stack_size; no
\* object exists after the throw
Stack_ctor(stack_size) ==
  /\ kind = "none" /\ Running
  /\ IF stack_size = 0 \/ stack_size = InvalidMarker
       THEN /\ last' = Call("StackAllocator", stack_size, "invalid_argument")
            /\ UNCHANGED << kind, stackVars >>
       ELSE /\ kind' = "stack"
            /\ m_stack' \in StackBaseAddrs
            /\ m_totalStackSize' = stack_size
            /\ m_pTop' = 0
            /\ UNCHANGED << owned, cum >>
            /\ last' = Call("StackAllocator", stack_size, "none")
  /\ UNCHANGED << ringVars, dstackVars, poolVars, mem, ub, wild, markers, stale, ptrs, hist >>

\* DoubleStackAllocator::DoubleStackAllocator(size_t total_size), for any
\* total_size; new uint8_t[0] gives a pointer that is not null
DStack_ctor(total_size) ==
  /\ kind = "none" /\ Running
  /\ IF total_size = SizeMod - 1
       THEN /\ last' = Call("DoubleStackAllocator", total_size, "abort")
            /\ UNCHANGED << kind, dstackVars >>
       ELSE /\ kind' = "dstack"
            /\ m_memory' \in StackBaseAddrs
            /\ m_totalMemSize' = total_size
            /\ m_left' = 0
            /\ m_right' = total_size
            /\ last' = Call("DoubleStackAllocator", total_size, "none")
  /\ UNCHANGED << ringVars, stackVars, poolVars, mem, ub, wild, markers, stale, ptrs, hist >>

\* No allocator yet: the caller constructs one, with any size, and uses it.
InitCtor ==
  /\ kind = "none"
  /\ m_stack = NULL /\ m_totalStackSize = 0 /\ m_pTop = 0 /\ owned = {} /\ cum = 0
  /\ m_memory = NULL /\ m_totalMemSize = 0 /\ m_left = 0 /\ m_right = 0
  /\ m_pool = NULL /\ m_first = NULL /\ m_total = 0 /\ m_used = 0
  /\ m_align = 0 /\ sizeofT = 0
  /\ mem = NoMem /\ ub = FALSE /\ wild = 0
  /\ NoRing
  /\ InitCaller

NextCtor ==
  \/ \E n \in CtorSizes : Stack_ctor(n)
  \/ \E n \in CtorSizes : DStack_ctor(n)
  \/ \E n \in AllocSizes : Stack_Alloc(n)
  \/ Stack_Clear
  \/ \E s \in { LEFT, RIGHT }, n \in AllocSizes : DStack_Alloc(s, n)
  \/ DStack_ClearAll

SpecCtor == InitCtor /\ [][NextCtor]_vars

\* The align given to the PoolAllocator constructor, valid or not.
PoolCtorAligns == (0 .. MaxOddAlign) \cup { 2 ^ MaxShiftLog + 1 }

\* PoolAllocator<T>::PoolAllocator(size_t num_items, size_t align), for any
\* num_items and align, with sizeof(T) = size
Pool_ctor(num_items, align, size) ==
  /\ kind = "none" /\ Running
  /\ IF num_items = 0 \/ ~(align > 0 /\ align <= 256)
       THEN /\ last' = Call("PoolAllocator", align, "abort")
            /\ UNCHANGED << kind, poolConfig, m_first, m_used, mem, ub >>
       ELSE \E pool \in BaseAddrs :
            /\ kind' = "pool"
            /\ m_pool' = pool
            /\ m_total' = num_items
            /\ m_align' = align
            /\ sizeofT' = size
            /\ m_used' = 0
            /\ m_first' = pool
            /\ mem' = PoolLinks(NoMem, 0, pool, num_items, PoolStep(align, size),
                                pool + PoolBytes(num_items, align, size))
            /\ ub' = ~PoolLinksInBuffer(pool, num_items, PoolStep(align, size),
                                        pool + PoolBytes(num_items, align, size))
            /\ last' = Call("PoolAllocator", align, "none")
  /\ UNCHANGED << ringVars, stackVars, dstackVars, poolCaller, wild, markers, stale, ptrs, hist >>

\* Callers that pass any alignment, a power of two or not: to the Align
\* functions, to the aligned allocations of a StackAllocator, and to the
\* constructor of a PoolAllocator they then allocate from.
InitAnyAlign == InitAlignUtil \/ InitStack \/ InitCtor

NextAnyAlign ==
  \/ Align_AlignPtr
  \/ Align_AlignPtrStore
  \/ \E n \in AllocSizes, a \in AlignInputs : Stack_AllocAligned(n, a)
  \/ \E n \in AllocSizes, a \in AlignInputs : Stack_AllocAlign(n, a)
  \/ \E k \in 0 .. MaxItems, a \in PoolCtorAligns, t \in TypeSizes : Pool_ctor(k, a, t)
  \/ Pool_Alloc

SpecAnyAlign == InitAnyAlign /\ [][NextAnyAlign]_vars

\* The plain and the aligned allocations of a StackAllocator or of a
\* DoubleStackAllocator, and the calls that empty them.
InitAlign == InitStack \/ InitDStack

NextAlign ==
  \/ \E n \in AllocSizes : Stack_Alloc(n)
  \/ \E n \in AllocSizes, a \in Aligns : Stack_AllocAligned(n, a)
  \/ \E n \in AllocSizes, a \in Aligns : Stack_AllocAlign(n, a)
  \/ Stack_Clear
  \/ \E s \in { LEFT, RIGHT }, n \in AllocSizes : DStack_Alloc(s, n)
  \/ \E s \in { LEFT, RIGHT }, n \in AllocSizes, a \in Aligns : DStack_AllocAlign(s, n, a)
  \/ DStack_ClearAll

SpecAlign == InitAlign /\ [][NextAlign]_vars

\* The aligned allocations of all three allocators.
InitAligned == InitAlign \/ InitPool

NextAligned ==
  \/ NextAlign
  \/ Pool_Alloc

SpecAligned == InitAligned /\ [][NextAligned]_vars

\* RingBuffer<T>::RingBuffer(size_t capacity), for a capacity that is not 0
InitRing ==
  /\ kind = "ring"
  /\ m_capacity \in RingCapacities
  /\ m_buf = [ s \in 0 .. m_capacity - 1 |-> Dead ]
  /\ m_front = 0 /\ m_back = 0 /\ m_size = 0
  /\ pushed = << >>
  /\ m_stack = NULL /\ m_totalStackSize = 0 /\ m_pTop = 0 /\ owned = {} /\ cum = 0
  /\ m_memory = NULL /\ m_totalMemSize = 0 /\ m_left = 0 /\ m_right = 0
  /\ m_pool = NULL /\ m_first = NULL /\ m_total = 0 /\ m_used = 0
  /\ m_align = 0 /\ sizeofT = 0
  /\ mem = NoMem /\ ub = FALSE /\ wild = 0
  /\ InitCaller

\* A RingBuffer driven through its own interface.
NextRing ==
  \/ \E item \in RingItems : Ring_PushBack(item)
  \/ Ring_PopFront
  \/ Ring_PopBack
  \/ Ring_Front
  \/ Ring_Back
  \/ Ring_Clear
  \/ \E index \in 0 .. MaxCapacity : Ring_at(index)

SpecRing == InitRing /\ [][NextRing]_vars

\* ------------------------------------------------------------ properties

\* C1: StackAllocator.Alloc(size) is all-or-nothing: when cursor + size is at
\* most the capacity it returns base + old cursor and advances the cursor by
\* exactly size; otherwise it returns null and leaves the cursor unchanged.
C1_AllocAllOrNothing ==
  [][ \A n \in AllocSizes : Stack_Alloc(n) =>
        IF m_pTop + n <= m_totalStackSize
          THEN last'.ret = m_stack + m_pTop /\ m_pTop' = m_pTop + n
          ELSE last'.ret = NULL /\ m_pTop' = m_pTop ]_vars

\* C2: the cursors of a DoubleStackAllocator never cross and never leave the
\* buffer: 0 <= left <= right <= capacity, that is GetCurrentSize(LEFT) +
\* GetCurrentSize(RIGHT) <= GetSize(), whatever Alloc, FreeToMarker, Clear and
\* ClearAll calls were made.
C2_CursorsNeverCross ==
  kind = "dstack" =>
    /\ 0 <= m_left /\ m_left <= m_right /\ m_right <= m_totalMemSize
    /\ DStackGetCurrentSize(LEFT) + DStackGetCurrentSize(RIGHT) <= m_totalMemSize

\* Both sides hold something and a marker of GetMarker has just been freed to.
C2_Witness ==
  /\ kind = "dstack"
  /\ last.op = "FreeToMarker" /\ last.exc = "none"
  /\ m_left > 0 /\ m_right < m_totalMemSize

\* C3: DoubleStackAllocator.Alloc(side, size) succeeds exactly when size is at
\* most right - left, on either side; a failed Alloc returns null and leaves
\* both cursors where they were.
C3_AllocIffGap ==
  [][ \A s \in { LEFT, RIGHT }, n \in AllocSizes : DStack_Alloc(s, n) =>
        /\ (last'.ret # NULL) <=> (n <= m_right - m_left)
        /\ last'.ret = NULL => (m_left' = m_left /\ m_right' = m_right) ]_vars

\* C4: StackAllocator.FreeToMarker(m) with m above the cursor throws
\* std::invalid_argument and leaves the cursor unchanged; no FreeToMarker
\* moves the cursor forward; with m at or below the cursor (also after a
\* rejected call) it succeeds and sets the cursor to m.
C4_FreeToMarkerGuard ==
  [][ \A m \in MarkerInputs : Stack_FreeToMarker(m) =>
        /\ m > m_pTop => (last'.exc = "invalid_argument" /\ m_pTop' = m_pTop)
        /\ m <= m_pTop => (last'.exc = "none" /\ m_pTop' = m)
        /\ m_pTop' <= m_pTop ]_vars

\* A FreeToMarker above the cursor has just been rejected.
C4_Witness ==
  /\ kind = "stack"
  /\ last.op = "FreeToMarker" /\ last.exc = "invalid_argument"
  /\ m_pTop > 0

\* C5: a marker taken by GetMarker, after any allocations and no free below
\* it, can be freed to: FreeToMarker succeeds and GetCurrentSize() is again
\* what it was when the marker was taken; freeing to the marker of the
\* current top changes nothing.
C5_MarkerRollback ==
  [][ /\ \A mk \in markers : Stack_FreeToMarker(mk.idx) =>
             (last'.exc = "none" /\ m_pTop' = mk.idx)
      /\ Stack_FreeToMarker(m_pTop) => (last'.exc = "none" /\ m_pTop' = m_pTop) ]_vars

\* C10: GetAlignedBase of the pointer an aligned allocation returned is the
\* address base + cursor the allocation started from.
C10_AlignedBaseRoundTrip ==
  [][ (Stack_GetAlignedBase /\ last.ret # NULL) => last'.ret = last.raw ]_vars

\* C6: on a fresh pool of count items the first count Alloc() calls succeed
\* and return the items 0 .. count - 1 in that order, each inside its own
\* slot, and the next Alloc() returns null; Alloc() fails exactly when
\* GetUsed() = GetTotal().
C6_PoolOrderAndExhaustion ==
  [][ Pool_Alloc =>
        /\ (last'.ret = NULL) <=> (m_used = m_total)
        /\ (fresh /\ m_used < m_total) =>
             /\ PoolSlot(m_used) < last'.ret
             /\ last'.ret <= PoolSlot(m_used) + m_align ]_vars

\* C7: the pool hands freed items out again last-freed first: after Free(p)
\* the next Alloc() returns p, and after freeing p1 .. pk in this order the
\* next k Alloc() calls return pk .. p1.
C7_PoolReuseLifo ==
  [][ (Pool_Alloc /\ freed # << >>) => last'.ret = Head(freed) ]_vars

\* C8: new_ptr on a StackAllocator, a DoubleStackAllocator (either side) or
\* a PoolAllocator returns a handle with a non-null pointer exactly when the
\* underlying allocation succeeds, and otherwise throws std::runtime_error
\* (and no handle is returned).
C8_Outcome(i, p) ==
  IF p # NULL
    THEN last'.exc = "none" /\ ptrs'[i].made /\ ptrs'[i].m_Ptr = p
    ELSE last'.exc = "runtime_error" /\ ptrs' = ptrs

C8_NewPtrIffAllocSucceeds ==
  [][ /\ \A i \in PtrIds, t \in TypeSizes : Stack_new_ptr(i, t) =>
             C8_Outcome(i, StackAlloc(m_pTop, m_totalStackSize, m_stack, t).ret)
      /\ \A i \in PtrIds, t \in TypeSizes, a \in Aligns : Stack_new_ptr_aligned(i, t, a) =>
             C8_Outcome(i, StackAllocAligned(m_pTop, m_totalStackSize, m_stack, t, a).ret)
      /\ \A i \in PtrIds, s \in { LEFT, RIGHT }, t \in TypeSizes : DStack_new_ptr(i, s, t) =>
             C8_Outcome(i, DStackAlloc(m_left, m_right, m_memory, s, t).ret)
      /\ \A i \in PtrIds : Pool_new_ptr(i) =>
             C8_Outcome(i, PoolAlloc(m_first, m_used, m_total, m_align).ret) ]_vars

\* A new_ptr has just thrown while the caller holds a handle made before.
C8_Witness ==
  /\ last.op = "new_ptr" /\ last.exc = "runtime_error"
  /\ \E i \in PtrIds : ptrs[i].made /\ ptrs[i].m_Ptr # NULL

\* C9: for a handle made by new_ptr, whatever delete_ptr calls are made on
\* it or on copies of it, the object's destructor and the reclaim step
\* (FreeToMarker, pool Free) each run at most once; a repeated delete_ptr
\* changes no cursor, no used count and no free list.
C9_ReleasedAtMostOnce ==
  [][ \A i \in PtrIds :
        /\ ptrs'[i].dtors <= 1 /\ ptrs'[i].reclaims <= 1
        /\ ( /\ ptrs[i].reclaims >= 1
             /\ \/ \E c \in BOOLEAN : Stack_delete_ptr(i, c) \/ DStack_delete_ptr(i, c)
                \/ Pool_delete_ptr(i) )
           => UNCHANGED << m_pTop, m_left, m_right, m_used, m_first >> ]_vars

\* C11: a successful aligned allocation, on a StackAllocator or on either
\* side of a DoubleStackAllocator, returns an address that is a multiple of
\* the alignment asked for, whatever the buffer address and the cursor.
C11_AlignedResultIsMultiple ==
  [][ /\ \A n \in AllocSizes, a \in Aligns :
           (Stack_AllocAligned(n, a) /\ last'.ret # NULL) => last'.ret % a = 0
      /\ \A n \in AllocSizes, a \in Aligns :
           (Stack_AllocAlign(n, a) /\ last'.ret # NULL) => last'.ret % a = 0
      /\ \A s \in { LEFT, RIGHT }, n \in AllocSizes, a \in Aligns :
           (DStack_AllocAlign(s, n, a) /\ last'.ret # NULL) => last'.ret % a = 0 ]_vars

\* An aligned allocation has just succeeded from an odd address.
C11_Witness ==
  /\ last.op \in { "AllocAligned", "AllocAlign" }
  /\ last.ret # NULL /\ last.raw % 2 = 1 /\ last.ret % 2 = 0
  /\ m_pTop + m_left > 0

\* C12: the byte ranges of the allocations of a StackAllocator that are live
\* together never overlap, and every successful allocation returns an
\* address inside the buffer [base, base + C). Stated for the allocations of
\* at least one byte: an empty allocation at a full stack returns base + C.
C12_LiveBlocksDisjointInBuffer ==
  [][ /\ \A n \in AllocSizes \ { 0 } :
           (Stack_Alloc(n) /\ last'.ret # NULL) =>
             (Range(last'.ret, n) \cap owned = {} /\ StackInBuffer(last'.ret))
      /\ \A n \in AllocSizes \ { 0 }, a \in Aligns :
           (Stack_AllocAligned(n, a) /\ last'.ret # NULL) =>
             (Range(last'.ret, n) \cap owned = {} /\ StackInBuffer(last'.ret))
      /\ \A n \in AllocSizes \ { 0 }, a \in Aligns :
           (Stack_AllocAlign(n, a) /\ last'.ret # NULL) =>
             (Range(last'.ret, n) \cap owned = {} /\ StackInBuffer(last'.ret)) ]_vars

\* C13: while only Alloc is called on a StackAllocator and the sizes asked
\* for add up to at most the capacity, every Alloc succeeds and
\* GetCurrentSize() is the sum of the sizes asked for so far.
C13_AllocSequenceFits ==
  [][ \A n \in AllocSizes :
        (Stack_Alloc(n) /\ cum >= 0 /\ cum + n <= m_totalStackSize) =>
          (last'.ret # NULL /\ m_pTop' = cum + n /\ m_pTop = cum) ]_vars

\* Two or more Allocs have filled the stack exactly.
C13_Witness ==
  /\ kind = "stack" /\ cum = m_totalStackSize /\ m_pTop = m_totalStackSize
  /\ last.op = "Alloc" /\ last.ret # NULL

\* C14: for a StackAllocator 0 <= GetCurrentSize() <= GetSize() in every
\* state, whatever was called, and no call changes GetSize().
C14_CursorInCapacity ==
  /\ [](kind = "stack" => (0 <= m_pTop /\ m_pTop <= m_totalStackSize))
  /\ [][m_totalStackSize' = m_totalStackSize]_vars

\* An aligned allocation has just filled the stack.
C14_Witness ==
  /\ kind = "stack" /\ m_pTop = m_totalStackSize
  /\ last.op = "AllocAligned" /\ last.ret # NULL

\* C15: DoubleStackAllocator.FreeToMarker with a LEFT marker above left, or
\* a RIGHT marker below right, throws std::invalid_argument and leaves both
\* cursors alone; otherwise it sets the cursor of the marker's side to idx,
\* leaves the other cursor alone and never grows that side, so that
\* GetCurrentSize of that side is what it was when the marker was taken.
C15_DStackFreeToMarkerGuard ==
  [][ \A s \in { LEFT, RIGHT }, idx \in 0 .. m_totalMemSize :
        DStack_FreeToMarker(s, idx) =>
          IF (s = LEFT /\ idx > m_left) \/ (s = RIGHT /\ idx < m_right)
            THEN /\ last'.exc = "invalid_argument"
                 /\ m_left' = m_left /\ m_right' = m_right
            ELSE /\ last'.exc = "none"
                 /\ s = LEFT => (m_left' = idx /\ m_right' = m_right)
                 /\ s = RIGHT => (m_right' = idx /\ m_left' = m_left)
                 /\ DStackGetCurrentSize(s)' =
                      (IF s = LEFT THEN idx ELSE m_totalMemSize - idx)
                 /\ DStackGetCurrentSize(s)' <= DStackGetCurrentSize(s) ]_vars

\* A FreeToMarker has just been rejected while both sides hold something.
C15_Witness ==
  /\ kind = "dstack"
  /\ last.op = "FreeToMarker" /\ last.exc = "invalid_argument"
  /\ m_left > 0 /\ m_right < m_totalMemSize

\* C16: StackAllocator.FreeToMarker accepts a marker exactly when it is at or
\* below the cursor, whatever happened before: an older marker can be freed
\* to directly, and a marker that a free went below is accepted again once
\* the cursor is back at or above it, and becomes the cursor.
C16_FreeToMarkerIgnoresHistory ==
  [][ /\ \A m \in MarkerInputs : Stack_FreeToMarker(m) =>
             ((last'.exc = "none") <=> (m <= m_pTop))
      /\ \A mk \in markers \cup stale :
           (Stack_FreeToMarker(mk.idx) /\ mk.idx <= m_pTop) =>
             (last'.exc = "none" /\ m_pTop' = mk.idx) ]_vars

\* A marker that a free went below has just been freed to again.
C16_Witness ==
  /\ kind = "stack"
  /\ last.op = "FreeToMarker" /\ last.exc = "none"
  /\ m_pTop > 0 /\ [ side |-> LEFT, idx |-> m_pTop ] \in stale

\* The handle variable i holds the handle made last among those held, and
\* no handle has been released while a later one of its stack was held.
C17_InOrder(i) ==
  /\ hist.order # << >> /\ hist.order[Len(hist.order)] = i
  /\ ~hist.broken
  /\ ptrs[i].m_Ptr # NULL /\ ptrs[i].reclaims = 0

\* C17: the marker a StackAllocator handle stores is the cursor from before
\* its allocation, alignment padding included in what follows the marker; a
\* successful unaligned new_ptr<T> moves the cursor by sizeof(T); delete_ptr
\* on the handle made last among those held, when the handles before were
\* released latest first, succeeds and sets the cursor back to what it was
\* before that new_ptr.
C17_ReleaseReversesAllocation ==
  [][ /\ \A i \in HandleIds, t \in TypeSizes :
           (Stack_new_ptr(i, t) /\ last'.exc = "none") =>
             (ptrs'[i].marker = m_pTop /\ m_pTop' = m_pTop + t)
      /\ \A i \in HandleIds, t \in TypeSizes, a \in Aligns :
           (Stack_new_ptr_aligned(i, t, a) /\ last'.exc = "none") =>
             ptrs'[i].marker = m_pTop
      /\ \A i \in HandleIds :
           (Stack_delete_ptr(i, FALSE) /\ C17_InOrder(i)) =>
             (last'.exc = "none" /\ m_pTop' = ptrs[i].marker) ]_vars

\* The handle variable i holds a handle not released yet, and a handle made
\* before it on the same stack was the first one released out of turn, with
\* nothing allocated on that stack since.
C18_OlderReleasedFirst(i) ==
  /\ hist.undone \notin { 0, i }
  /\ \E k \in 1 .. Len(hist.order) : hist.order[k] = i
  /\ ptrs[i].m_Ptr # NULL /\ ptrs[i].reclaims = 0
  /\ ptrs[hist.undone].side = ptrs[i].side

\* C18: when the older of two handles of one stack (DoubleStackAllocator:
\* of one side) is released first and nothing is allocated on that stack
\* afterwards, delete_ptr on the newer handle throws std::invalid_argument.
C18_OutOfOrderReleaseRejected ==
  [][ /\ \A i \in HandleIds :
           (Stack_delete_ptr(i, FALSE) /\ C18_OlderReleasedFirst(i)) =>
             last'.exc = "invalid_argument"
      /\ \A i \in HandleIds :
           (DStack_delete_ptr(i, FALSE) /\ C18_OlderReleasedFirst(i)) =>
             last'.exc = "invalid_argument" ]_vars

\* The object of the handle variable i is there and nothing was done to it.
C19_Fresh(i) ==
  /\ ptrs[i].made /\ ptrs[i].m_Ptr # NULL
  /\ ptrs[i].dtors = 0 /\ ptrs[i].reclaims = 0

\* What a successful delete_ptr leaves of the handle h.
C19_Released(h) == h.dtors = 1 /\ h.reclaims = 1 /\ h.m_Ptr = NULL

\* C19: a successful delete_ptr on a handle runs the destructor of its
\* object once and the reclaim step of the allocator once, and leaves the
\* handle reading as empty, for StackAllocator, DoubleStackAllocator and
\* PoolAllocator; the destructor comes first: it has run when the reclaim
\* step throws.
C19_DeleteTearsDownOnceAndEmpties ==
  [][ /\ \A i \in PtrIds : (Stack_delete_ptr(i, FALSE) /\ C19_Fresh(i)) =>
             IF last'.exc = "none" THEN C19_Released(ptrs'[i])
             ELSE ptrs'[i].dtors = 1 /\ ptrs'[i].reclaims = 0
      /\ \A i \in PtrIds : (DStack_delete_ptr(i, FALSE) /\ C19_Fresh(i)) =>
             IF last'.exc = "none" THEN C19_Released(ptrs'[i])
             ELSE ptrs'[i].dtors = 1 /\ ptrs'[i].reclaims = 0
      /\ \A i \in PtrIds : (Pool_delete_ptr(i) /\ C19_Fresh(i)) =>
             C19_Released(ptrs'[i]) ]_vars

\* What an aligned allocation answering ret leaves of a stack whose used
\* size was used, when the plain allocation of total bytes would answer
\* plainRet: the used size after it is usedAfter.
C20_Reserves(ret, plainRet, used, usedAfter, total) ==
  /\ (ret = NULL) <=> (plainRet = NULL)
  /\ ret = NULL => usedAfter = used
  /\ ret # NULL => (usedAfter - used) % SizeMod = total

C21_ShiftByteEncoding ==
  [][ /\ (Align_AlignPtrStore /\ last.ret \in ShiftAligns) =>
           /\ last'.exc = "none"
           /\ last.raw + 1 <= last'.ret /\ last'.ret <= last.raw + last.ret
           /\ last'.ret % last.ret = 0
           /\ DOMAIN mem' = { last'.ret - 1 }
           /\ mem'[last'.ret - 1] = (last'.ret - last.raw) % 256
           /\ (last'.ret - last.raw = 256) <=> (mem'[last'.ret - 1] = 0)
      /\ (Align_UnalignPtr /\ last.exc = "none") =>
           /\ last'.ret = last.raw
           /\ mem[last.ret - 1] = 0 => last'.ret = last.ret - 256 ]_vars

\* UnalignPtr has just read a stored 0 and gone back 256 bytes.
C21_Witness ==
  /\ kind = "align" /\ last.op = "UnalignPtr"
  /\ DOMAIN mem = { last.ret + 255 } /\ mem[last.ret + 255] = 0

\* size_t PoolAllocator<T>::GetFree() const
PoolGetFree == (m_total - m_used) % SizeMod

\* C22: while Free is passed null or live pointers only, GetUsed() is the
\* number of live allocations, 0 <= GetUsed() <= GetTotal(), GetFree() is
\* GetTotal() - GetUsed() and GetTotal() never changes; an Alloc that fails
\* and Free(nullptr) change no counter and nothing of the free list.
C22_PoolCounters ==
  /\ [](kind = "pool" =>
          /\ m_used = Cardinality(live)
          /\ 0 <= m_used /\ m_used <= m_total
          /\ PoolGetFree = m_total - m_used)
  /\ [][ /\ m_total' = m_total
         /\ (Pool_Alloc /\ last'.ret = NULL /\ last'.exc = "none") =>
              UNCHANGED << m_used, m_first, mem >>
         /\ Pool_Free(NULL) => UNCHANGED << m_used, m_first, mem >> ]_vars

\* C23: every pointer p that Alloc() of a pool returns is a multiple of the
\* alignment A with slotBase < p <= slotBase + A for the slot popped, and
\* Free(p) makes the start of that slot, not p, the head of the free list.
C23_PoolAlignRoundTrip ==
  [][ /\ (Pool_Alloc /\ last'.ret # NULL) =>
           /\ last'.ret % m_align = 0
           /\ m_first < last'.ret /\ last'.ret <= m_first + m_align
      /\ \A p \in live : Pool_Free(p) =>
           /\ \E i \in 0 .. m_total - 1 : m_first' = PoolSlot(i)
           /\ m_first' < p /\ p <= m_first' + m_align ]_vars


\* The numbers of a thrown message.
C24_Numbers == { last'.what[k] : k \in DOMAIN last'.what }

\* C24: the std::runtime_error thrown by a new_ptr that could not allocate
\* carries, as numbers, the size asked for, sizeof(T), and a capacity or
\* usage figure of the allocator (GetSize or GetCurrentSize for the stacks,
\* the total, used or free count for the pool), for each of StackAllocator,
\* DoubleStackAllocator and PoolAllocator.
C24_ErrorCarriesSizeAndCapacity ==
  [][ /\ \A i \in PtrIds, t \in TypeSizes :
           (Stack_new_ptr(i, t) /\ last'.exc = "runtime_error") =>
             /\ t \in C24_Numbers
             /\ { m_totalStackSize, m_pTop } \cap C24_Numbers # {}
      /\ \A i \in PtrIds, t \in TypeSizes, a \in Aligns :
           (Stack_new_ptr_aligned(i, t, a) /\ last'.exc = "runtime_error") =>
             /\ t \in C24_Numbers
             /\ { m_totalStackSize, m_pTop } \cap C24_Numbers # {}
      /\ \A i \in PtrIds, s \in { LEFT, RIGHT }, t \in TypeSizes :
           (DStack_new_ptr(i, s, t) /\ last'.exc = "runtime_error") =>
             /\ t \in C24_Numbers
             /\ { m_totalMemSize, DStackGetCurrentSize(LEFT),
                  DStackGetCurrentSize(RIGHT) } \cap C24_Numbers # {}
      /\ \A i \in PtrIds :
           (Pool_new_ptr(i) /\ last'.exc = "runtime_error") =>
             /\ sizeofT \in C24_Numbers
             /\ { m_total, m_used, PoolGetFree } \cap C24_Numbers # {} ]_vars


\* C25: constructing a StackAllocator throws std::invalid_argument exactly
\* when stack_size is 0 or InvalidMarker (the largest size_t); with any other
\* stack_size it succeeds and leaves the cursor at 0, Empty() true and
\* GetSize() equal to stack_size.
C25_StackCtorRejectsZeroAndMax ==
  [][ \A n \in CtorSizes : Stack_ctor(n) =>
        IF n = 0 \/ n = SizeMod - 1
          THEN last'.exc = "invalid_argument" /\ kind' = "none"
          ELSE /\ last'.exc = "none" /\ kind' = "stack"
               /\ m_pTop' = 0 /\ StackEmpty' /\ StackGetSize' = n ]_vars

C25_Witness ==
  /\ last.op = "StackAllocator" /\ last.exc = "invalid_argument"
  /\ last.ret = InvalidMarker /\ kind = "none"


\* C26: Clear() of a StackAllocator has no precondition: in every reachable
\* state of a live StackAllocator it can be called, it raises nothing and
\* sets the cursor to 0, so that Empty() is true and an Alloc of the whole
\* capacity succeeds, at the start of the buffer.
C26_ClearAlwaysEmpties ==
  /\ []((kind = "stack" /\ Running) => ENABLED Stack_Clear)
  /\ [][ Stack_Clear =>
           /\ last'.exc = "none"
           /\ m_pTop' = 0 /\ StackEmpty'
           /\ StackAlloc(m_pTop', m_totalStackSize', m_stack', StackGetSize').ret = m_stack' ]_vars

C26_Witness ==
  /\ kind = "stack" /\ last.op = "Clear" /\ StackEmpty
  /\ \E mk \in stale : mk.idx = m_totalStackSize


\* The cursor and GetCurrentSize of the side that is not s stay as they are.
C27_OtherSideKept(s) ==
  LET o == IF s = LEFT THEN RIGHT ELSE LEFT IN
    /\ IF o = LEFT THEN m_left' = m_left ELSE m_right' = m_right
    /\ DStackGetCurrentSize(o)' = DStackGetCurrentSize(o)

\* C27: the two sides of a DoubleStackAllocator are independent: Alloc on a
\* side (plain or aligned, succeeding or failing), FreeToMarker with a marker
\* of a side and Clear of a side never change the cursor or GetCurrentSize
\* of the other side; Clear(LEFT) sets the left cursor to 0, Clear(RIGHT)
\* sets the right cursor to the capacity, and ClearAll does both, after
\* which EmptyBoth() holds.
C27_SidesIndependent ==
  [][ /\ \A s \in { LEFT, RIGHT }, n \in AllocSizes :
           DStack_Alloc(s, n) => C27_OtherSideKept(s)
      /\ \A s \in { LEFT, RIGHT }, n \in AllocSizes, a \in Aligns :
           DStack_AllocAlign(s, n, a) => C27_OtherSideKept(s)
      /\ \A s \in { LEFT, RIGHT }, m \in 0 .. m_totalMemSize :
           DStack_FreeToMarker(s, m) => C27_OtherSideKept(s)
      /\ \A s \in { LEFT, RIGHT } :
           DStack_Clear(s) =>
             /\ C27_OtherSideKept(s)
             /\ last'.exc = "none"
             /\ IF s = LEFT THEN m_left' = 0 ELSE m_right' = m_totalMemSize
             /\ DStackEmpty(s)'
      /\ DStack_ClearAll =>
           /\ last'.exc = "none"
           /\ m_left' = 0 /\ m_right' = m_totalMemSize /\ DStackEmptyBoth' ]_vars

C27_Witness ==
  /\ kind = "dstack" /\ last.op = "Clear"
  /\ DStackEmpty(LEFT) /\ ~DStackEmpty(RIGHT)
  /\ \E mk \in stale : mk.side = LEFT /\ mk.idx > 0


\* C28: the blocks of a DoubleStackAllocator are laid out from the two
\* ends of its buffer. A successful Alloc(LEFT, n) returns base + old left
\* and the next LEFT block starts where this one ends, above it; a
\* successful Alloc(RIGHT, n) returns base + (old right - n), so that this
\* block ends where the previous RIGHT block starts, below it; and a block
\* of one side never reaches into the blocks of the other side: a LEFT block
\* ends at or below base + right, where the lowest RIGHT block starts, and a
\* RIGHT block starts at or above base + left, where the highest LEFT block
\* ends. Addresses are compared as integers, not modulo the pointer width.
C28_BlocksGrowFromBothEnds ==
  [][ \A n \in AllocSizes :
        /\ (DStack_Alloc(LEFT, n) /\ last'.ret # NULL) =>
             /\ last'.ret = m_memory + m_left
             /\ m_memory + m_left' = last'.ret + n
             /\ m_left' >= m_left
             /\ last'.ret + n <= m_memory + m_right
        /\ (DStack_Alloc(RIGHT, n) /\ last'.ret # NULL) =>
             /\ last'.ret = m_memory + (m_right - n)
             /\ last'.ret = m_memory + m_right'
             /\ last'.ret + n = m_memory + m_right
             /\ m_right' <= m_right
             /\ last'.ret >= m_memory + m_left ]_vars


\* C29: constructing a DoubleStackAllocator with total_size 0 or with the
\* largest size_t ends in an error and leaves no allocator, so that no
\* DoubleStackAllocator whose GetSize() is 0 exists in any reachable state.
C29_DStackCtorRejectsZeroAndMax ==
  /\ [][ \A n \in { 0, SizeMod - 1 } :
           DStack_ctor(n) => (last'.exc # "none" /\ kind' = "none") ]_vars
  /\ [](kind = "dstack" => DStackGetSize # 0)


\* An alignment that is a power of two.
C30_PowerOfTwo(a) == \E k \in 0 .. SizeBits - 1 : a = 2 ^ k

\* C30: an alignment that is not a power of two, 0 included, is always
\* rejected by a failed assertion and never gives a pointer: in
\* Align::AlignPtr and Align::AlignPtrStore; in the aligned allocations of
\* a StackAllocator, unless the stack has no room and the call returns null
\* before it aligns anything; and in a PoolAllocator, whose constructor or
\* else whose first Alloc fails the assertion, so that no pool with such an
\* alignment ever hands out an object.
C30_BadAlignmentRejected ==
  /\ [][ /\ (Align_AlignPtr /\ ~C30_PowerOfTwo(last.ret)) => last'.exc = "abort"
         /\ (Align_AlignPtrStore /\ ~C30_PowerOfTwo(last.ret)) => last'.exc = "abort"
         /\ \A n \in AllocSizes, a \in AlignInputs :
              (Stack_AllocAligned(n, a) /\ ~C30_PowerOfTwo(a)) =>
                \/ last'.exc = "abort"
                \/ /\ last'.ret = NULL
                   /\ StackAlloc(m_pTop, m_totalStackSize, m_stack,
                                 (n + a) % SizeMod).ret = NULL
         /\ \A n \in AllocSizes, a \in AlignInputs :
              (Stack_AllocAlign(n, a) /\ ~C30_PowerOfTwo(a)) =>
                \/ last'.exc = "abort"
                \/ /\ last'.ret = NULL
                   /\ StackAlloc(m_pTop, m_totalStackSize, m_stack,
                                 (n + a - 1) % SizeMod).ret = NULL
         /\ (Pool_Alloc /\ ~C30_PowerOfTwo(m_align)) => last'.exc = "abort" ]_vars
  /\ []((kind = "pool" /\ ~C30_PowerOfTwo(m_align)) => (m_used = 0 /\ live = {}))

\* C33: a PoolAllocator keeps to the buffer its constructor allocated: each
\* of its m_total slots, slot i being the item_size + align bytes from
\* m_pool + i * (item_size + align) on, lies inside [m_pool, PoolEnd), the
\* slots do not overlap, no access has left the buffer, and every object
\* handed out by Alloc() lies inside the buffer.
C33_PoolSlotsInBuffer ==
  kind = "pool" =>
    LET step == ItemSize(sizeofT) + m_align IN
      /\ \A i \in 0 .. m_total - 1 :
           /\ m_pool <= m_pool + i * step
           /\ m_pool + (i + 1) * step <= PoolEnd
      /\ \A i, j \in 0 .. m_total - 1 :
           i < j => m_pool + (i + 1) * step <= m_pool + j * step
      /\ ~ub
      /\ \A p \in live : m_pool <= p /\ p + sizeofT <= PoolEnd

\* C34: for every request size of the size_t range, those for which cursor
\* + size wraps around included, Alloc of a StackAllocator (plain or
\* aligned) and Alloc of a DoubleStackAllocator on either side return null
\* whenever the bytes asked for exceed the free space, and no Alloc moves a
\* cursor backward: m_pTop and m_left never decrease, m_right never
\* increases.
C34_AllocNeverWraps ==
  [][ /\ \A n \in AllocSizes :
           Stack_Alloc(n) =>
             /\ n > m_totalStackSize - m_pTop => last'.ret = NULL
             /\ m_pTop' >= m_pTop
      /\ \A n \in AllocSizes, a \in Aligns :
           Stack_AllocAligned(n, a) =>
             /\ n + a > m_totalStackSize - m_pTop => last'.ret = NULL
             /\ m_pTop' >= m_pTop
      /\ \A s \in { LEFT, RIGHT }, n \in AllocSizes :
           DStack_Alloc(s, n) =>
             /\ n > m_right - m_left => last'.ret = NULL
             /\ m_left' >= m_left
             /\ m_right' <= m_right ]_vars

\* The free list from address p on, followed for at most k links: the
\* addresses of its nodes, then -1 where it does not end in nullptr within
\* k nodes or where a link is not a value the pool wrote.
RECURSIVE C35_Walk(_, _)
C35_Walk(p, k) ==
  IF p = NULL THEN << >>
  ELSE IF k = 0 \/ ~Tracked(mem, p, PtrSize) THEN << -1 >>
  ELSE << p >> \o C35_Walk(CHOOSE w \in LoadWord(mem, p, PtrSize) : TRUE, k - 1)

\* The slots no live object was cut from.
C35_FreeSlots ==
  { PoolSlot(i) : i \in 0 .. m_total - 1 } \
    { PoolSlot(i) : i \in { j \in 0 .. m_total - 1 :
                            \E p \in live : PoolSlot(j) < p /\ p <= PoolSlot(j) + m_align } }

\* C35: with Free only given live pointers, the free list of a PoolAllocator
\* is well formed in every reachable state: followed from the head it ends
\* in nullptr without visiting a node twice, its nodes are exactly the
\* GetFree() slots that are not live, and the head is null exactly when
\* GetUsed() == GetTotal(); and Alloc() never returns an object that is
\* still live.
C35_FreeListWellFormed ==
  /\ [](kind = "pool" =>
          LET list == C35_Walk(m_first, m_total) IN
            /\ \A k \in DOMAIN list : list[k] # -1
            /\ \A j, k \in DOMAIN list : j # k => list[j] # list[k]
            /\ Len(list) = PoolGetFree
            /\ { list[k] : k \in DOMAIN list } = C35_FreeSlots
            /\ (m_first = NULL) <=> (m_used = m_total))
  /\ [][ (Pool_Alloc /\ last'.ret # NULL) => last'.ret \notin live ]_vars

\* What a failed delete_ptr leaves of the handle variable i: the destructor
\* of the held object has run once more, the pointer is what it was, not
\* null, and nothing was reclaimed.
C36_HalfDone(i) ==
  /\ ptrs'[i].dtors = ptrs[i].dtors + 1
  /\ ptrs'[i].m_Ptr = ptrs[i].m_Ptr /\ ptrs'[i].m_Ptr # NULL
  /\ ptrs'[i].reclaims = ptrs[i].reclaims

\* C36: a delete_ptr that fails is not atomic: when delete_ptr on a handle
\* of a StackAllocator or of a DoubleStackAllocator throws
\* std::invalid_argument, the marker of the handle being beyond the cursor,
\* the cursors of the allocator are unchanged, but the destructor of the
\* held object has run and the pointer of the handle is still not null.
C36_FailedDeleteHalfDone ==
  [][ \A i \in HandleIds :
        /\ (Stack_delete_ptr(i, FALSE) /\ last'.exc = "invalid_argument") =>
             /\ ptrs[i].marker > m_pTop
             /\ m_pTop' = m_pTop
             /\ C36_HalfDone(i)
        /\ (DStack_delete_ptr(i, FALSE) /\ last'.exc = "invalid_argument") =>
             /\ IF ptrs[i].side = LEFT THEN ptrs[i].marker > m_left
                                       ELSE ptrs[i].marker < m_right
             /\ m_left' = m_left /\ m_right' = m_right
             /\ C36_HalfDone(i) ]_vars

C36_Witness ==
  /\ kind = "dstack" /\ last.op = "delete_ptr" /\ last.exc = "invalid_argument"
  /\ \E i \in HandleIds :
       /\ ptrs[i].dtors = 1 /\ ptrs[i].m_Ptr # NULL /\ ptrs[i].reclaims = 0
       /\ ptrs[i].side = RIGHT /\ ptrs[i].marker < m_right

\* C37: a new_ptr that fails leaves the allocator as it was: when new_ptr,
\* aligned or not, throws std::runtime_error on a StackAllocator, a
\* DoubleStackAllocator or a PoolAllocator, the cursors, the used count of
\* the pool and its free list are unchanged and no object was constructed
\* in a handle, so that a request that fits the free space still succeeds.
C37_FailedNewPtrChangesNothing ==
  [][ \A i \in PtrIds :
        /\ \A t \in TypeSizes :
             (Stack_new_ptr(i, t) /\ last'.exc = "runtime_error") =>
               /\ m_pTop' = m_pTop /\ ptrs' = ptrs
               /\ \A n \in 0 .. m_totalStackSize - m_pTop :
                    StackAlloc(m_pTop', m_totalStackSize, m_stack, n).ret # NULL
        /\ \A t \in TypeSizes, a \in Aligns :
             (Stack_new_ptr_aligned(i, t, a) /\ last'.exc = "runtime_error") =>
               /\ m_pTop' = m_pTop /\ ptrs' = ptrs
               /\ \A n \in 0 .. m_totalStackSize - m_pTop :
                    StackAlloc(m_pTop', m_totalStackSize, m_stack, n).ret # NULL
        /\ \A s \in { LEFT, RIGHT }, t \in TypeSizes :
             (DStack_new_ptr(i, s, t) /\ last'.exc = "runtime_error") =>
               /\ m_left' = m_left /\ m_right' = m_right /\ ptrs' = ptrs
               /\ \A o \in { LEFT, RIGHT }, n \in 0 .. m_right - m_left :
                    DStackAlloc(m_left', m_right', m_memory, o, n).ret # NULL
        /\ (Pool_new_ptr(i) /\ last'.exc = "runtime_error") =>
             /\ m_used' = m_used /\ m_first' = m_first /\ mem' = mem
             /\ ptrs' = ptrs ]_vars

\* The n bytes at p, and the byte before p where shift tells that a shift
\* byte was written there, lie in [lo, hi).
C38_Inside(p, n, shift, lo, hi) ==
  /\ lo <= (IF shift THEN p - 1 ELSE p)
  /\ p + n <= hi

\* C38: the block [p, p + size) an aligned allocation returns for a power
\* of two alignment, with the shift byte at p - 1 where one is written,
\* lies within the bytes reserved for it, which are the bytes the cursor of
\* the stack (or of the side of the double stack) moved over, or the slot
\* popped from the pool, and lies within the buffer of the allocator.
C38_AlignedBlockInReservation ==
  [][ /\ \A n \in AllocSizes, a \in Aligns :
           (Stack_AllocAligned(n, a) /\ last'.ret # NULL) =>
             /\ C38_Inside(last'.ret, n, TRUE, m_stack + m_pTop, m_stack + m_pTop')
             /\ C38_Inside(last'.ret, n, TRUE, m_stack, m_stack + m_totalStackSize)
      /\ \A n \in AllocSizes, a \in Aligns :
           (Stack_AllocAlign(n, a) /\ last'.ret # NULL) =>
             /\ C38_Inside(last'.ret, n, FALSE, m_stack + m_pTop, m_stack + m_pTop')
             /\ C38_Inside(last'.ret, n, FALSE, m_stack, m_stack + m_totalStackSize)
      /\ \A s \in { LEFT, RIGHT }, n \in AllocSizes, a \in Aligns :
           (DStack_AllocAlign(s, n, a) /\ last'.ret # NULL) =>
             /\ IF s = LEFT
                  THEN C38_Inside(last'.ret, n, FALSE, m_memory + m_left, m_memory + m_left')
                  ELSE C38_Inside(last'.ret, n, FALSE, m_memory + m_right', m_memory + m_right)
             /\ C38_Inside(last'.ret, n, FALSE, m_memory, m_memory + m_totalMemSize)
      /\ (Pool_Alloc /\ last'.ret # NULL) =>
             /\ C38_Inside(last'.ret, sizeofT, TRUE,
                           m_first, m_first + ItemSize(sizeofT) + m_align)
             /\ C38_Inside(last'.ret, sizeofT, TRUE, m_pool, PoolEnd) ]_vars

\* C39: the comparison operators of Align against a size_t agree with the
\* comparison of the wrapped byte count as an integer: for every Align a
\* and size_t n, a == n, a != n, a < n and a > n return m_Bytes == n,
\* m_Bytes != n, m_Bytes < n and m_Bytes > n.
C39_AlignComparesAsInteger ==
  [][ \A n \in AlignInputs :
        /\ Align_Compare("==", n) => (last'.ret = 1 <=> last.ret = n)
        /\ Align_Compare("!=", n) => (last'.ret = 1 <=> last.ret # n)
        /\ Align_Compare("<", n) => (last'.ret = 1 <=> last.ret < n)
        /\ Align_Compare(">", n) => (last'.ret = 1 <=> last.ret > n) ]_vars

\* The object the element index of a RingBuffer is, as at(index) finds it.
C31_At(index) == m_buf[(m_front + index) % m_capacity]

\* C31: a RingBuffer keeps the last capacity pushed items: Size() is between
\* 0 and the capacity in every reachable state, and a PushBack on a full
\* buffer discards the oldest element, so that at(0), ..., at(Size() - 1)
\* are always the most recent Size() items pushed and not popped, in the
\* order of their pushes.
C31_RingKeepsLastItems ==
  kind = "ring" /\ Running =>
    /\ 0 <= Size /\ Size <= m_capacity
    /\ Size <= Len(pushed)
    /\ \A i \in 0 .. Size - 1 : C31_At(i) = pushed[Len(pushed) - Size + 1 + i]

\* The slot of the last element of a RingBuffer that is not empty.
C32_LastSlot == (m_front + m_size - 1) % m_capacity

\* C32: on a RingBuffer that is not empty, Back() refers to the element
\* pushed most recently of those still stored, the one at(Size() - 1) refers
\* to, and PopBack() removes exactly that element and returns its copy:
\* Size() decreases by 1 and the remaining elements and their order do not
\* change.  On an empty buffer PopBack() and PopFront() raise
\* std::length_error, and Back() and Front() return an empty optional.
C32_BackIsLastElement ==
  [][ /\ Ring_Back /\ ~Empty => last'.ret = C32_LastSlot
      /\ Ring_PopBack /\ ~Empty =>
           /\ last'.exc = "none"
           /\ last'.ret = m_buf[C32_LastSlot]
           /\ Size' = Size - 1
           /\ \A i \in 0 .. Size - 2 :
                m_buf'[(m_front' + i) % m_capacity'] = C31_At(i)
      /\ (Ring_PopBack \/ Ring_PopFront) /\ Empty =>
           last'.exc = "length_error" /\ UNCHANGED ringVars
      /\ (Ring_Back \/ Ring_Front) /\ Empty =>
           last'.ret = NoRef /\ last'.exc = "none" ]_vars

====
